---- MODULE Spec2Model ----
(***************************************************************************)
(* Model of the partition sync layer of streamlit_app.py: the Drive        *)
(* download with retries and fallback (download_file), the local partition *)
(* cache, the sync manager (ensure_local_partitions_for_dates,             *)
(* upload_new_local_files, delete_dates_remote_and_local), the ingestion   *)
(* commit (write_partitioned_parquet) and the cached dashboard query.      *)
(*                                                                         *)
(* Two specifications share the module:                                    *)
(*   SpecDL  one call of download_file, one step per statement that        *)
(*           touches the file system or the network, with a crash          *)
(*           possible between any two steps;                               *)
(*   Spec    the application: each handler is one action, its remote       *)
(*           faults are inputs of the action.                              *)
(***************************************************************************)
EXTENDS Integers, Sequences, FiniteSets, TLC

\* ------------------------------------------------------------------ bounds
MaxAttempts == 5
MaxChunks == 2
MaxDate == 2
MaxTime == 1
MaxCommits == 2
MaxIds == 4
MaxFaults == 1
MaxRestarts == 1
MaxWriters == 2
MaxRows == 2
DayLen == 2
MaxTableRows == 1
MaxFiles == 2
MaxQDate == 3
MaxQueryFaults == 1
MaxListIds == 3
MaxPages == 3
MaxSessions == 2
MaxUsers == 2
MaxKey == 2
MaxStore == 2
WeekLen == 2

\* ------------------------------------------------------- program constants
DefaultMaxAttempts == 4
BackoffCap == 10

VARIABLES
    \* download_file (SpecDL)
    pc,             \* position inside download_file
    max_attempts,   \* the keyword argument
    size,           \* number of chunks of the remote object
    attempt,        \* the loop variable
    tmp_path,       \* content of local_path + ".part"
    local_path,     \* content of the destination
    local_path0,    \* content of the destination when the call started
    e,              \* the exception bound by "except Exception as e"
    raised,         \* the exception that left download_file
    log,            \* transfers and sleeps performed so far
    \* the application (Spec)
    localDirs,      \* the dates d whose directory drive_cache/Date=<d> exists
    localFiles,     \* localFiles[d]: the files of that directory, name and content
    remote,         \* the objects of the Drive folder tree
    nextId,         \* the id Drive gives to the next object it creates
    now,            \* int(time.time())
    commits,        \* imports committed so far; tags the content of their files
    cache,          \* st.cache_data of compute_all: the stored (key, value) pairs
    faults,         \* faults of the store and of the disk injected so far
    restarts,       \* restarts of the process so far
    last,           \* the handler that ran last, its inputs and what it did
    \* ingestion (SpecCommit)
    writers,        \* the script runs inside write_partitioned_parquet
    \* the import flow (SpecParse, SpecBatch)
    imp,            \* the run of "Process & Import Files": its files and its progress
    \* the query engine (SpecQuery)
    qstore,         \* the rows of the parquet files under drive_cache
    qlast,          \* the query that ran last: its arguments and what it returned
    shown,          \* the tables that compute_all returned to the Dashboard tab
    \* single steps of the Drive helpers (SpecList, SpecFolder)
    lc,             \* a run of list_children: the folder listed, the pages, the loop
    ep,             \* two imports inside upload_new_local_files, and their store
    \* the login gate and the script runs of the sessions (SpecAuth)
    sess            \* the configured users, st.session_state of each session, the last run

dlvars == <<pc, max_attempts, size, attempt, tmp_path, local_path, local_path0, e, raised, log>>

appvars == <<localDirs, localFiles, remote, nextId, now, commits, cache, faults, restarts, last>>

qvars == <<qstore, qlast, shown>>

stepvars == <<lc, ep, sess>>

ingvars == <<writers, imp, qvars, stepvars>>

vars == <<dlvars, appvars, ingvars>>

\* ------------------------------------------------------------ file contents
\* A file holds the chunks written to it so far; the remote object of `size`
\* chunks is <<1, .., size>>.
Absent == <<-1>>
OldContent == <<0>>
Content(n) == [i \in 1..n |-> i]
NoError == <<"none", 0>>

Min(a, b) == IF a < b THEN a ELSE b

\* time.sleep(min(2 ** attempt, 10))
Backoff_uncapped(k) == 2 ^ k
Backoff(k) == Min(2 ^ k, BackoffCap)

DLTerminal == {"returned", "raised", "crashed", "idle"}

\* "Clean any previous partial": os.remove(tmp_path) if it exists.
DL_Clean ==
    /\ pc = "clean"
    /\ tmp_path' = Absent
    /\ attempt' = 1
    /\ pc' = "open"
    /\ UNCHANGED <<max_attempts, size, local_path, local_path0, e, raised, log>>
    /\ UNCHANGED <<appvars, ingvars>>

\* io.FileIO(tmp_path, "wb"): creates or truncates the temporary file.
DL_Open ==
    /\ pc = "open"
    /\ tmp_path' = <<>>
    /\ pc' = "next_chunk"
    /\ UNCHANGED <<max_attempts, size, attempt, local_path, local_path0, e, raised, log>>
    /\ UNCHANGED <<appvars, ingvars>>

\* A plausible slip: the chunks go to local_path itself.
DL_NextChunk_direct ==
    /\ pc = "next_chunk"
    /\ LET cur == IF local_path \in {Absent, OldContent} THEN <<>> ELSE local_path
       IN /\ Len(cur) < size
          /\ local_path' = Append(cur, Len(cur) + 1)
          /\ tmp_path' = local_path'
          /\ pc' = IF Len(cur) + 1 = size THEN "replace" ELSE "next_chunk"
    /\ UNCHANGED <<max_attempts, size, attempt, local_path0, e, raised, log>>
    /\ UNCHANGED <<appvars, ingvars>>

\* downloader.next_chunk(num_retries=5) returned: one more chunk is in tmp_path.
DL_NextChunk ==
    /\ pc = "next_chunk"
    /\ Len(tmp_path) < size
    /\ tmp_path' = Append(tmp_path, Len(tmp_path) + 1)
    /\ pc' = IF Len(tmp_path) + 1 = size THEN "replace" ELSE "next_chunk"
    /\ UNCHANGED <<max_attempts, size, attempt, local_path, local_path0, e, raised, log>>
    /\ UNCHANGED <<appvars, ingvars>>

\* downloader.next_chunk raised: the chunked attempt has failed.
DL_ChunkFail ==
    /\ pc = "next_chunk"
    /\ e' = <<"chunked", attempt>>
    /\ log' = Append(log, <<"chunked", attempt, 0>>)
    /\ pc' = "except"
    /\ UNCHANGED <<max_attempts, size, attempt, tmp_path, local_path, local_path0, raised>>
    /\ UNCHANGED <<appvars, ingvars>>

\* os.replace(tmp_path, local_path); return
DL_Replace ==
    /\ pc = "replace"
    /\ local_path' = tmp_path
    /\ tmp_path' = Absent
    /\ log' = Append(log, <<"chunked", attempt, 1>>)
    /\ pc' = "returned"
    /\ UNCHANGED <<max_attempts, size, attempt, local_path0, e, raised>>
    /\ UNCHANGED <<appvars, ingvars>>

\* except Exception as e: if attempt == max_attempts: <fallback> ; else sleep
DL_Except ==
    /\ pc = "except"
    /\ pc' = IF attempt = max_attempts THEN "fb_get" ELSE "sleep"
    /\ UNCHANGED <<max_attempts, size, attempt, tmp_path, local_path, local_path0, e, raised, log>>
    /\ UNCHANGED <<appvars, ingvars>>

\* time.sleep(min(2 ** attempt, 10)), then the next iteration of the loop.
DL_Sleep ==
    /\ pc = "sleep"
    /\ log' = Append(log, <<"sleep", attempt, Backoff(attempt)>>)
    /\ attempt' = attempt + 1
    /\ pc' = "open"
    /\ UNCHANGED <<max_attempts, size, tmp_path, local_path, local_path0, e, raised>>
    /\ UNCHANGED <<appvars, ingvars>>

\* content = drive.files().get_media(fileId=file_id).execute(num_retries=5)
DL_FallbackGet ==
    /\ pc = "fb_get"
    /\ \E ok \in BOOLEAN :
         IF ok
         THEN /\ pc' = "fb_open"
              /\ log' = log
         ELSE /\ pc' = "cleanup"
              /\ log' = Append(log, <<"whole", attempt, 0>>)
    /\ UNCHANGED <<max_attempts, size, attempt, tmp_path, local_path, local_path0, e, raised>>
    /\ UNCHANGED <<appvars, ingvars>>

\* open(tmp_path, "wb")
DL_FallbackOpen ==
    /\ pc = "fb_open"
    /\ tmp_path' = <<>>
    /\ pc' = "fb_write"
    /\ UNCHANGED <<max_attempts, size, attempt, local_path, local_path0, e, raised, log>>
    /\ UNCHANGED <<appvars, ingvars>>

\* fh.write(content) and the close of the with block
DL_FallbackWrite ==
    /\ pc = "fb_write"
    /\ tmp_path' = Content(size)
    /\ pc' = "fb_replace"
    /\ UNCHANGED <<max_attempts, size, attempt, local_path, local_path0, e, raised, log>>
    /\ UNCHANGED <<appvars, ingvars>>

\* os.replace(tmp_path, local_path); return
DL_FallbackReplace ==
    /\ pc = "fb_replace"
    /\ local_path' = tmp_path
    /\ tmp_path' = Absent
    /\ log' = Append(log, <<"whole", attempt, 1>>)
    /\ pc' = "returned"
    /\ UNCHANGED <<max_attempts, size, attempt, local_path0, e, raised>>
    /\ UNCHANGED <<appvars, ingvars>>

\* A plausible slip: a bare "raise" in the inner handler re-raises the
\* fallback's error and the partial file stays behind.
DL_Cleanup_bare ==
    /\ pc = "cleanup"
    /\ raised' = <<"whole", attempt>>
    /\ pc' = "raised"
    /\ UNCHANGED <<max_attempts, size, attempt, tmp_path, local_path, local_path0, e, log>>
    /\ UNCHANGED <<appvars, ingvars>>

\* except Exception: remove tmp_path if it exists; raise e
DL_Cleanup ==
    /\ pc = "cleanup"
    /\ tmp_path' = Absent
    /\ raised' = e
    /\ pc' = "raised"
    /\ UNCHANGED <<max_attempts, size, attempt, local_path, local_path0, e, log>>
    /\ UNCHANGED <<appvars, ingvars>>

\* The process dies between two steps. A death inside fh.write(content)
\* leaves any prefix of the content in the temporary file.
DL_Crash ==
    /\ pc \notin DLTerminal
    /\ pc' = "crashed"
    /\ IF pc = "fb_write"
       THEN \E n \in 0..size : tmp_path' = Content(n)
       ELSE tmp_path' = tmp_path
    /\ UNCHANGED <<max_attempts, size, attempt, local_path, local_path0, e, raised, log>>
    /\ UNCHANGED <<appvars, ingvars>>

\* ===================================================== the application
Dates == 1..MaxDate
Root == 0

\* f"Date={date_str}" and f"import_{int(time.time())}_{n}.parquet"
PartName(d) == <<"Date", d, 0>>
ImportName(t, n) == <<"import", t, n>>

NoObj == [id |-> -1, parent |-> -1, folder |-> FALSE, name |-> <<"", 0, 0>>, content |-> 0]
NoFault == Root - 1

Max(S) == CHOOSE x \in S : \A y \in S : y <= x

RECURSIVE SortedSeq(_)
SortedSeq(S) ==
    IF S = {} THEN <<>>
    ELSE LET m == CHOOSE x \in S : \A y \in S : x <= y
         IN <<m>> \o SortedSeq(S \ {m})

Perms(S) == {q \in [1..Cardinality(S) -> S] : \A i, j \in DOMAIN q : i # j => q[i] # q[j]}

Range(q) == {q[i] : i \in DOMAIN q}

\* The files of a directory in name order.
FileKey(f) == f.name[2] * 100 + f.name[3]
FileSeq(S) ==
    LET keys == SortedSeq({FileKey(f) : f \in S})
    IN [i \in DOMAIN keys |-> CHOOSE f \in S : FileKey(f) = keys[i]]

EmptyFiles == [d \in Dates |-> {}]

\* ------------------------------------------------------------ Drive helpers
\* list_children: every page of the listing, in the order of the ids.
list_children(rem, parent_id, folders_only) ==
    LET ids == SortedSeq({o.id : o \in {x \in rem : x.parent = parent_id /\ (folders_only => x.folder)}})
    IN [i \in DOMAIN ids |-> CHOOSE o \in rem : o.id = ids[i]]

\* {f["name"]: f for f in listing}.get(name): the last entry of that name.
DictGet(listing, name) ==
    LET idx == {i \in DOMAIN listing : listing[i].name = name}
    IN IF idx = {} THEN NoObj ELSE listing[Max(idx)]

\* find_child_by_name: pageSize=1, the first child of that name.
find_child_by_name(rem, parent_id, name) ==
    LET l == SelectSeq(list_children(rem, parent_id, FALSE), LAMBDA o : o.name = name)
    IN IF l = <<>> THEN NoObj ELSE l[1]

\* ---------------------------------------------------- local partition cache
\* list_local_dates: every entry of the cache directory named Date=<d>.
list_local_dates_nonempty(dirs, files) == {d \in dirs : files[d] # {}}
list_local_dates(dirs, files) == dirs

\* A plausible slip: only finished files count, not a leftover .part.
IsPresent_finished(dirs, files, ds) == ds \in dirs /\ \E f \in files[ds] : f.name[1] # "part"

\* os.path.isdir(local_dir) and os.listdir(local_dir)
IsPresent_never(dirs, files, ds) == FALSE
IsPresent(dirs, files, ds) == ds \in dirs /\ files[ds] # {}

\* -------------------------------------------------------------- sync: ensure
Called(st, kind, target, outcome) == [st EXCEPT !.calls = Append(@, <<kind, target, outcome>>)]

\* download_file as its caller sees it (SpecDL): the directory is made; on
\* success the destination holds the object, on failure it is left alone and
\* the error leaves download_file.
download_file(st, ds, f, ok) ==
    IF ok
    THEN [Called(st, "download", f.id, "ok") EXCEPT
            !.dirs = @ \cup {ds},
            !.files[ds] = {x \in @ : x.name # f.name} \cup {[name |-> f.name, content |-> f.content]}]
    ELSE [Called(st, "download", f.id, "err") EXCEPT !.dirs = @ \cup {ds}]

\* A plausible slip: no try/except around download_file.
DownloadFailed_raise(st, f) == [st EXCEPT !.raised = "remote"]

\* except Exception as e: st.warning(...)
DownloadFailed(st, f) == [st EXCEPT !.warnings = Append(@, f.id)]

RECURSIVE DownloadLoop(_, _, _, _)
DownloadLoop(st, ds, fs, dlFail) ==
    IF fs = <<>> \/ st.raised # "none" THEN st
    ELSE LET f == Head(fs)
             st1 == download_file(st, ds, f, f.id \notin dlFail)
             st2 == IF f.id \in dlFail THEN DownloadFailed(st1, f) ELSE st1
         IN DownloadLoop(st2, ds, Tail(fs), dlFail)

\* A plausible slip: the directory of the date is made before the look-up.
FolderMissing_mkdir(st, ds) == [st EXCEPT !.done = @ \cup {ds}, !.dirs = @ \cup {ds}]

\* if not remote_folder: continue
FolderMissing(st, ds) == [st EXCEPT !.done = @ \cup {ds}]

RECURSIVE EnsureLoop(_, _, _, _, _, _)
EnsureLoop(st, rem, folders_on_drive, dseq, dlFail, listFail) ==
    IF dseq = <<>> \/ st.raised # "none" THEN st
    ELSE LET ds == Head(dseq)
             remote_folder == DictGet(folders_on_drive, PartName(ds))
             st1 ==
                IF IsPresent(st.dirs, st.files, ds) THEN [st EXCEPT !.done = @ \cup {ds}]
                ELSE IF remote_folder = NoObj THEN FolderMissing(st, ds)
                ELSE IF remote_folder.id = listFail
                     THEN [Called(st, "list", remote_folder.id, "err") EXCEPT !.raised = "remote"]
                ELSE LET files_to_download ==
                             SelectSeq(list_children(rem, remote_folder.id, FALSE), LAMBDA o : ~o.folder)
                         r == DownloadLoop(Called(st, "list", remote_folder.id, "ok"), ds,
                                           files_to_download, dlFail)
                     IN IF r.raised = "none" THEN [r EXCEPT !.done = @ \cup {ds}] ELSE r
         IN EnsureLoop(st1, rem, folders_on_drive, Tail(dseq), dlFail, listFail)

\* ensure_local_partitions_for_dates. dlFail: the ids whose download fails
\* after every attempt and the fallback; listFail: the folder whose listing
\* raises (Root, a partition folder, or NoFault).
ensure_local_partitions_for_dates(dirs, files, rem, dates_needed, dlFail, listFail) ==
    LET st0 == [dirs |-> dirs, files |-> files, raised |-> "none", done |-> {},
                calls |-> <<>>, warnings |-> <<>>]
    IN IF dates_needed = {} THEN st0
       ELSE IF listFail = Root
            THEN [Called(st0, "list", Root, "err") EXCEPT !.raised = "remote"]
       ELSE EnsureLoop(Called(st0, "list", Root, "ok"), rem, list_children(rem, Root, TRUE),
                       SortedSeq(dates_needed), dlFail, listFail)


\* -------------------------------------------------------------- sync: upload
\* create_subfolder
create_subfolder(st, parent_id, name) ==
    [Called(st, "create", st.nid, "ok") EXCEPT
        !.rem = @ \cup {[id |-> st.nid, parent |-> parent_id, folder |-> TRUE,
                         name |-> name, content |-> 0]},
        !.nid = @ + 1]

\* A plausible slip: the object is created under a fixed name.
upload_file_renamed(st, parent_id, f) ==
    [Called(st, "upload", st.nid, "ok") EXCEPT
        !.rem = @ \cup {[id |-> st.nid, parent |-> parent_id, folder |-> FALSE,
                         name |-> ImportName(0, 0), content |-> f.content]},
        !.nid = @ + 1]

\* A plausible slip: a file whose name the folder holds is not uploaded again.
upload_file_dedup(st, parent_id, f) ==
    IF \E o \in st.rem : o.parent = parent_id /\ o.name = f.name THEN st
    ELSE [Called(st, "upload", st.nid, "ok") EXCEPT
            !.rem = @ \cup {[id |-> st.nid, parent |-> parent_id, folder |-> FALSE,
                             name |-> f.name, content |-> f.content]},
            !.nid = @ + 1]

\* upload_file: a new object named os.path.basename(local_path), whatever the
\* folder holds already.
upload_file(st, parent_id, f) ==
    [Called(st, "upload", st.nid, "ok") EXCEPT
        !.rem = @ \cup {[id |-> st.nid, parent |-> parent_id, folder |-> FALSE,
                         name |-> f.name, content |-> f.content]},
        !.nid = @ + 1]

RECURSIVE UploadFiles(_, _, _)
UploadFiles(st, dest_id, fs) ==
    IF fs = <<>> THEN st
    ELSE UploadFiles(upload_file(st, dest_id, Head(fs)), dest_id, Tail(fs))

\* The fault of one call of upload_new_local_files: the date at which a
\* remote call raises (NoFault: none does), the call that raises, and for an
\* upload the local files uploaded before it (os.listdir fixes no order).
NoUploadFault == [kind |-> "none", date |-> NoFault, ok |-> {}]
UploadFaults(files, dates) ==
    {NoUploadFault}
    \cup {[kind |-> g, date |-> d, ok |-> {}] : d \in dates, g \in {"find", "create"}}
    \cup UNION {{[kind |-> "upload", date |-> d, ok |-> k] : k \in (SUBSET files[d]) \ {files[d]}} : d \in dates}

\* One iteration of the loop of upload_new_local_files, with
\* ensure_partition_folder inlined.
UploadDate(st, dirs, files, ds, fault) ==
    IF ds \notin dirs THEN [st EXCEPT !.done = @ \cup {ds}]
    ELSE IF fault.date = ds /\ fault.kind = "find"
         THEN [Called(st, "find", ds, "err") EXCEPT !.raised = "remote"]
    ELSE LET found == find_child_by_name(st.rem, Root, PartName(ds))
             st1 == Called(st, "find", ds, "ok")
         IN IF found = NoObj /\ fault.date = ds /\ fault.kind = "create"
            THEN [Called(st1, "create", ds, "err") EXCEPT !.raised = "remote"]
            ELSE LET st2 == IF found = NoObj THEN create_subfolder(st1, Root, PartName(ds)) ELSE st1
                     dest_id == IF found = NoObj THEN st1.nid ELSE found.id
                     fails == fault.date = ds /\ fault.kind = "upload"
                     st3 == UploadFiles(st2, dest_id, FileSeq(IF fails THEN fault.ok ELSE files[ds]))
                 IN IF fails
                    THEN [Called(st3, "upload", ds, "err") EXCEPT !.raised = "remote"]
                    ELSE [st3 EXCEPT !.done = @ \cup {ds},
                                     !.fresh = IF found = NoObj THEN @ \cup {ds} ELSE @]

RECURSIVE UploadLoop(_, _, _, _, _)
UploadLoop(st, dirs, files, dseq, fault) ==
    IF dseq = <<>> \/ st.raised # "none" THEN st
    ELSE UploadLoop(UploadDate(st, dirs, files, Head(dseq), fault), dirs, files, Tail(dseq), fault)

\* upload_new_local_files. order: the iteration order of the set dates_affected.
upload_new_local_files(dirs, files, rem, nid, order, fault) ==
    UploadLoop([rem |-> rem, nid |-> nid, raised |-> "none", done |-> {}, fresh |-> {},
                calls |-> <<>>], dirs, files, order, fault)

\* -------------------------------------------------------------- sync: delete
\* A plausible slip: every HttpError of the delete is raised, 404 included.
delete_file_or_folder_strict(st, file_id, delErr, gone) ==
    IF file_id \in gone \/ file_id = delErr
    THEN [Called(st, "delete", file_id, IF file_id \in gone THEN "404" ELSE "err") EXCEPT
             !.raised = "remote"]
    ELSE [Called(st, "delete", file_id, "ok") EXCEPT
             !.rem = {o \in @ : o.id # file_id /\ o.parent # file_id}]

\* delete_file_or_folder: HttpError 404 is swallowed, any other is raised.
\* gone: the objects that are no longer there when their delete is issued;
\* delErr: the object whose delete fails with another error.
delete_file_or_folder(st, file_id, delErr, gone) ==
    IF file_id \in gone THEN Called(st, "delete", file_id, "404")
    ELSE IF file_id = delErr
         THEN [Called(st, "delete", file_id, "err") EXCEPT !.raised = "remote"]
    ELSE [Called(st, "delete", file_id, "ok") EXCEPT
             !.rem = {o \in @ : o.id # file_id /\ o.parent # file_id}]

RECURSIVE DeleteChildren(_, _, _, _)
DeleteChildren(st, fs, delErr, gone) ==
    IF fs = <<>> \/ st.raised # "none" THEN st
    ELSE DeleteChildren(delete_file_or_folder(st, Head(fs).id, delErr, gone), Tail(fs), delErr, gone)

\* shutil.rmtree(local_dir, ignore_errors=True). rmFail: the dates whose
\* removal fails; the error is ignored and the tree stays. The variant
\* rmtree_strict is the call without ignore_errors.
rmtree_strict(st, ds, rmFail) ==
    IF ds \notin rmFail
    THEN [Called(st, "rmtree", ds, "ok") EXCEPT !.dirs = @ \ {ds}, !.files[ds] = {}]
    ELSE [Called(st, "rmtree", ds, "ignored") EXCEPT !.raised = "local"]

rmtree(st, ds, rmFail) ==
    IF ds \notin rmFail
    THEN [Called(st, "rmtree", ds, "ok") EXCEPT !.dirs = @ \ {ds}, !.files[ds] = {}]
    ELSE Called(st, "rmtree", ds, "ignored")

\* One iteration of the loop of delete_dates_remote_and_local.
DeleteDate(st, folders_on_drive, ds, listFail, delErr, gone, rmFail) ==
    LET remote_folder == DictGet(folders_on_drive, PartName(ds))
        st1 ==
           IF remote_folder = NoObj THEN st
           ELSE IF remote_folder.id = listFail
                THEN [Called(st, "list", remote_folder.id, "err") EXCEPT !.raised = "remote"]
           ELSE LET r == DeleteChildren(Called(st, "list", remote_folder.id, "ok"),
                                        list_children(st.rem, remote_folder.id, FALSE), delErr, gone)
                IN IF r.raised # "none" THEN r
                   ELSE delete_file_or_folder(r, remote_folder.id, delErr, gone)
    IN IF st1.raised # "none" THEN st1
       ELSE LET st2 == IF ds \in st1.dirs THEN rmtree(st1, ds, rmFail) ELSE st1
            IN [st2 EXCEPT !.done = @ \cup {ds}]

RECURSIVE DeleteLoop(_, _, _, _, _, _, _)
DeleteLoop(st, folders_on_drive, dseq, listFail, delErr, gone, rmFail) ==
    IF dseq = <<>> \/ st.raised # "none" THEN st
    ELSE DeleteLoop(DeleteDate(st, folders_on_drive, Head(dseq), listFail, delErr, gone, rmFail),
                    folders_on_drive, Tail(dseq), listFail, delErr, gone, rmFail)

\* The objects of `gone` and what hangs below them have left the store.
Vanished(rem, gone) == {o \in rem : o.id \notin gone /\ o.parent \notin gone}

\* delete_dates_remote_and_local. order: the iteration order of the set
\* dates_to_delete.
delete_dates_remote_and_local(dirs, files, rem, order, listFail, delErr, gone, rmFail) ==
    LET st0 == [dirs |-> dirs, files |-> files, rem |-> rem, raised |-> "none", done |-> {},
                calls |-> <<>>]
        r == IF listFail = Root
             THEN [Called(st0, "list", Root, "err") EXCEPT !.raised = "remote"]
             ELSE DeleteLoop(Called(st0, "list", Root, "ok"), list_children(rem, Root, TRUE),
                             order, listFail, delErr, gone, rmFail)
    IN [r EXCEPT !.rem = Vanished(@, gone)]

\* ------------------------------------------------------------------ ingestion
\* DataMgr.write_partitioned_parquet: one file per date of the batch, named
\* after the clock and the number of entries of the directory.
write_partitioned_parquet(dirs, files, touched, t, tag) ==
    [dirs |-> dirs \cup touched,
     files |-> [d \in Dates |->
                  IF d \in touched
                  THEN LET fname == ImportName(t, Cardinality(files[d]) + 1)
                       IN {x \in files[d] : x.name # fname} \cup {[name |-> fname, content |-> tag]}
                  ELSE files[d]],
     touched |-> touched]

\* ---------------------------------------------------------------- dashboard
\* DataMgr.get_all_campaigns is empty when no parquet file is in the cache.
HasData(files) == \E d \in Dates : files[d] # {}

\* What the queries of compute_all read: the rows of the files of the dates
\* d1..d2 (the campaign tuple and the percentiles are fixed in this model).
compute_all(files, d1, d2) == UNION {{<<d, f.name, f.content>> : f \in files[d]} : d \in d1..d2}

\* compute_all is a name of the script run only when the run went through
\* the Dashboard branch with campaigns selected.
ComputeAllBound_everywhere(selected_tab) == TRUE
ComputeAllBound(selected_tab) == selected_tab = "Dashboard"

\* compute_all.clear() in a run of the tab selected_tab.
ClearCache(selected_tab, c) ==
    IF ComputeAllBound(selected_tab)
    THEN [raised |-> "none", cache |-> {}]
    ELSE [raised |-> "NameError", cache |-> c]


\* ------------------------------------------------------------------- actions
\* The record of the handler that ran last. dates: its date set; raised: the
\* exception that ended it; done: the dates whose loop iteration completed;
\* calls: its remote calls <<kind, target, outcome>>; warnings: the ids named
\* by st.warning; fresh: the dates uploaded into a folder the run created;
\* touched, snap, again: what the handler before it left (the dates it
\* committed, the disk it wiped, whether it was the same deletion).
NoLast ==
    [op |-> "init", dates |-> {}, raised |-> "none", done |-> {},
     calls |-> <<>>, warnings |-> <<>>, fresh |-> {}, snap |-> EmptyFiles,
     touched |-> {}, again |-> FALSE,
     key |-> <<0, 0>>, result |-> {}, hit |-> FALSE, msgs |-> <<>>]

Ran(op) == [NoLast EXCEPT !.op = op]

FileIds(rem) == {o.id : o \in {x \in rem : ~x.folder}}
FolderIds(rem) == {o.id : o \in {x \in rem : x.folder}}
DateSets == (SUBSET Dates) \ {{}}

\* The objects a deletion of `dates` can address: the partition folders of
\* those names and their children.
DeleteTargets(rem, dates) ==
    LET fs == {o.id : o \in {x \in rem : x.folder /\ x.parent = Root /\ \E d \in dates : x.name = PartName(d)}}
    IN fs \cup {o.id : o \in {x \in rem : x.parent \in fs}}

\* The partition folders of the names of `dates`.
PartFolders(rem, dates) ==
    {o.id : o \in {x \in rem : x.folder /\ x.parent = Root /\ \E d \in dates : x.name = PartName(d)}}

\* The one remote call of a handler that raises, if any: a listing (of Root
\* or of a partition folder) or, in a deletion, the delete of an object.
\* Every handler stops at the first call that raises.
NoHardFault == [kind |-> "none", at |-> NoFault]
ListFaults(rem, dates) ==
    {NoHardFault} \cup {[kind |-> "list", at |-> x] : x \in {Root} \cup PartFolders(rem, dates)}
HardFaults(rem, dates) ==
    ListFaults(rem, dates) \cup {[kind |-> "delete", at |-> x] : x \in DeleteTargets(rem, dates)}
ListFail(hard) == IF hard.kind = "list" THEN hard.at ELSE NoFault
DelErr(hard) == IF hard.kind = "delete" THEN hard.at ELSE NoFault

\* The number of faults of one handler run: the failing objects and the one
\* call that raises.
NFaults(S, hard) == Cardinality(S) + (IF hard.kind = "none" THEN 0 ELSE 1)

\* The files below the partition folders of `dates`.
PartFiles(rem, dates) == {o.id : o \in {x \in rem : ~x.folder /\ x.parent \in PartFolders(rem, dates)}}

\* The clock passes to the next second.
Tick ==
    /\ now < MaxTime
    /\ now' = now + 1
    /\ last' = Ran("tick")
    /\ UNCHANGED <<localDirs, localFiles, remote, nextId, commits, cache, faults, restarts>>
    /\ UNCHANGED <<dlvars, ingvars>>

\* The process starts again on a fresh disk: drive_cache and st.cache_data
\* are empty. The record keeps what the disk held and, after an import, the
\* dates that import uploaded into folders it created.
Restart ==
    /\ restarts < MaxRestarts
    /\ localDirs # {} \/ cache # {}
    /\ restarts' = restarts + 1
    /\ localDirs' = {}
    /\ localFiles' = EmptyFiles
    /\ cache' = {}
    /\ last' = [Ran("restart") EXCEPT
                  !.snap = localFiles,
                  !.fresh = IF last.op = "import" THEN last.fresh ELSE {}]
    /\ UNCHANGED <<remote, nextId, now, commits, faults>>
    /\ UNCHANGED <<dlvars, ingvars>>

\* A call of ensure_local_partitions_for_dates with any date set; the sidebar
\* of every script run makes it with the dates of its range that
\* list_local_dates does not hold.
EnsureCall ==
    \E dates_needed \in DateSets :
      \E dlFail \in SUBSET PartFiles(remote, dates_needed), hard \in ListFaults(remote, dates_needed) :
        LET r == ensure_local_partitions_for_dates(localDirs, localFiles, remote,
                                                   dates_needed, dlFail, ListFail(hard))
        IN /\ faults + NFaults(dlFail, hard) <= MaxFaults
           /\ faults' = faults + NFaults(dlFail, hard)
           /\ localDirs' = r.dirs
           /\ localFiles' = r.files
           /\ last' = [Ran("ensure") EXCEPT !.dates = dates_needed, !.raised = r.raised,
                          !.done = r.done, !.calls = r.calls, !.warnings = r.warnings,
                          !.touched = IF last.op = "import" THEN last.dates ELSE {},
                          !.snap = IF last.op = "restart" THEN last.snap ELSE EmptyFiles,
                          !.fresh = IF last.op = "restart" THEN last.fresh ELSE {}]
           /\ UNCHANGED <<remote, nextId, now, commits, cache, restarts>>
           /\ UNCHANGED <<dlvars, ingvars>>

\* local_path + ".part"
PartOf(name) == <<"part", name[2], name[3]>>

\* The process dies inside download_file while ensure_local_partitions_for_dates
\* fetches the first file of a date that is not present locally: the
\* directory exists and holds the unfinished .part file; st.cache_data, held
\* in memory, is gone.
CrashedDownload ==
    \E ds \in Dates :
        LET folders_on_drive == list_children(remote, Root, TRUE)
            remote_folder == DictGet(folders_on_drive, PartName(ds))
            files_to_download ==
                SelectSeq(list_children(remote, remote_folder.id, FALSE), LAMBDA o : ~o.folder)
        IN /\ faults < MaxFaults
           /\ ~IsPresent(localDirs, localFiles, ds)
           /\ remote_folder # NoObj
           /\ files_to_download # <<>>
           /\ faults' = faults + 1
           /\ localDirs' = localDirs \cup {ds}
           /\ localFiles' = [localFiles EXCEPT
                               ![ds] = {[name |-> PartOf(files_to_download[1].name), content |-> 0]}]
           /\ cache' = {}
           /\ last' = [Ran("crash") EXCEPT !.dates = {ds}]
           /\ UNCHANGED <<remote, nextId, now, commits, restarts>>
           /\ UNCHANGED <<dlvars, ingvars>>

\* A script run with the Dashboard tab selected: the sidebar syncs the dates
\* of the range that list_local_dates does not hold, then compute_all runs
\* through st.cache_data.
Dashboard ==
    \E d1 \in Dates, d2 \in Dates :
      \E dlFail \in SUBSET PartFiles(remote, d1..d2), hard \in ListFaults(remote, d1..d2) :
        /\ d1 <= d2
        /\ faults + NFaults(dlFail, hard) <= MaxFaults
        /\ faults' = faults + NFaults(dlFail, hard)
        /\ LET all_needed_dates == d1..d2
               missing_dates == all_needed_dates \ list_local_dates(localDirs, localFiles)
               r == ensure_local_partitions_for_dates(localDirs, localFiles, remote,
                                                      missing_dates, dlFail, ListFail(hard))
               key == <<d1, d2>>
               hits == {c \in cache : c.key = key}
               queried == r.raised = "none" /\ HasData(r.files)
               value == IF hits # {} THEN (CHOOSE c \in hits : TRUE).val
                        ELSE compute_all(r.files, d1, d2)
           IN /\ localDirs' = r.dirs
              /\ localFiles' = r.files
              /\ cache' = IF queried /\ hits = {} THEN cache \cup {[key |-> key, val |-> value]}
                          ELSE cache
              /\ last' = [Ran(IF queried THEN "dashboard" ELSE "sidebar") EXCEPT
                            !.dates = missing_dates, !.raised = r.raised, !.done = r.done,
                            !.calls = r.calls, !.warnings = r.warnings, !.key = key,
                            !.result = IF queried THEN value ELSE {},
                            !.hit = queried /\ hits # {}]
        /\ UNCHANGED <<remote, nextId, now, commits, restarts>>
        /\ UNCHANGED <<dlvars, ingvars>>

\* "Process & Import Files" with at least one valid file: the batch is
\* committed, the touched partitions are uploaded, the cache is cleared.
Import ==
    \E touched \in DateSets :
        /\ commits < MaxCommits
        /\ LET w == write_partitioned_parquet(localDirs, localFiles, touched, now, commits + 1)
           IN \E order \in Perms(touched), fault \in UploadFaults(w.files, touched) :
                LET u == upload_new_local_files(w.dirs, w.files, remote, nextId, order, fault)
                    c == IF u.raised = "none" THEN ClearCache("Import Data", cache)
                         ELSE [raised |-> u.raised, cache |-> cache]
                IN /\ u.nid <= MaxIds + 1
                   /\ faults + NFaults({}, fault) <= MaxFaults
                   /\ faults' = faults + NFaults({}, fault)
                   /\ localDirs' = w.dirs
                   /\ localFiles' = w.files
                   /\ remote' = u.rem
                   /\ nextId' = u.nid
                   /\ commits' = commits + 1
                   /\ cache' = c.cache
                   /\ last' = [Ran("import") EXCEPT !.dates = w.touched, !.raised = c.raised,
                                 !.done = u.done, !.calls = u.calls, !.fresh = u.fresh,
                                 !.msgs = (IF u.raised = "none" THEN <<"success">> ELSE <<>>)
                                          \o (IF c.raised = "none" THEN <<>> ELSE <<"error">>)]
        /\ UNCHANGED <<now, restarts>>
        /\ UNCHANGED <<dlvars, ingvars>>

\* A call of upload_new_local_files for dates whose directories the cache
\* holds, as the import flow makes it after its commit. again: the handler
\* before it uploaded the same dates into folders it created.
UploadCall ==
    \E dates_affected \in DateSets :
      \E order \in Perms(dates_affected), fault \in UploadFaults(localFiles, dates_affected) :
        LET u == upload_new_local_files(localDirs, localFiles, remote, nextId, order, fault)
        IN /\ dates_affected \subseteq localDirs
           /\ u.nid <= MaxIds + 1
           /\ faults + NFaults({}, fault) <= MaxFaults
           /\ faults' = faults + NFaults({}, fault)
           /\ remote' = u.rem
           /\ nextId' = u.nid
           /\ last' = [Ran("upload") EXCEPT !.dates = dates_affected, !.raised = u.raised,
                         !.done = u.done, !.calls = u.calls, !.fresh = u.fresh,
                         !.again = (/\ last.op \in {"import", "upload"}
                                    /\ last.raised # "remote"
                                    /\ dates_affected \subseteq last.fresh)]
           /\ UNCHANGED <<localDirs, localFiles, now, commits, cache, restarts>>
           /\ UNCHANGED <<dlvars, ingvars>>

\* "Delete Selected Dates": a call of delete_dates_remote_and_local.
DeleteCall ==
    \E dates_to_delete \in DateSets :
      \E order \in Perms(dates_to_delete),
         hard \in HardFaults(remote, dates_to_delete),
         gone \in SUBSET DeleteTargets(remote, dates_to_delete),
         rmFail \in SUBSET dates_to_delete :
        LET r == delete_dates_remote_and_local(localDirs, localFiles, remote, order,
                                               ListFail(hard), DelErr(hard), gone, rmFail)
        IN /\ faults + NFaults(gone \cup {-2 - d : d \in rmFail}, hard) <= MaxFaults
           /\ faults' = faults + NFaults(gone \cup {-2 - d : d \in rmFail}, hard)
           /\ localDirs' = r.dirs
           /\ localFiles' = r.files
           /\ remote' = r.rem
           /\ last' = [Ran("delete") EXCEPT !.dates = dates_to_delete, !.raised = r.raised,
                          !.done = r.done, !.calls = r.calls,
                          !.again = (last.op = "delete" /\ last.raised = "none"
                                     /\ last.dates = dates_to_delete),
                          !.msgs = IF r.raised = "none" THEN <<"success">> ELSE <<"error">>]
           /\ UNCHANGED <<nextId, now, commits, cache, restarts>>
           /\ UNCHANGED <<dlvars, ingvars>>

\* ----------------------------------------------- write_partitioned_parquet
\* Instants are counted from the start of date 1, DayLen to the day; NaT is
\* what pd.to_datetime(errors="coerce") gives for a value it cannot parse.
NaT == 0 - 1
Instants == 0..(MaxDate * DayLen - 1)
DateOf(ts) == (ts \div DayLen) + 1

Writers == 1..MaxWriters

\* The frames a commit can receive: up to MaxRows rows, each with the
\* Insert_Dt that parse_and_filter_df left in it. A row is known by the run
\* that brought it and its index in the frame.
Frames(w) ==
    UNION {[1..n -> {[src |-> w, Insert_Dt |-> v] : v \in {NaT} \cup Instants}] : n \in 0..MaxRows}

RowsOf(df) == {<<i, df[i]>> : i \in DOMAIN df}

\* df["Date"] = pd.to_datetime(df["Insert_Dt"], errors="coerce").dt.date;
\* df.dropna(subset=["Date"]); df.groupby(df["Date"].astype(str))
GroupKeys(df) == {DateOf(r[2].Insert_Dt) : r \in {x \in RowsOf(df) : x[2].Insert_Dt # NaT}}
Group(df, ds) == {r \in RowsOf(df) : r[2].Insert_Dt # NaT /\ DateOf(r[2].Insert_Dt) = ds}

WriterIdle == [pc |-> "idle", df |-> <<>>, groups |-> <<>>, fname |-> ImportName(0, 0),
               touched |-> {}, names |-> {}, result |-> {}]
WriterStart(df) == [WriterIdle EXCEPT !.pc = "begin", !.df = df]

\* if df.empty: return set(); the Date column, dropna, groupby.
WP_Begin ==
    \E w \in Writers :
        /\ writers[w].pc = "begin"
        /\ LET df == writers[w].df
           IN writers' = [writers EXCEPT ![w] =
                 IF df = <<>> THEN [@ EXCEPT !.pc = "done", !.result = {}]
                 ELSE IF GroupKeys(df) = {} THEN [@ EXCEPT !.pc = "ret"]
                 ELSE [@ EXCEPT !.pc = "name", !.groups = SortedSeq(GroupKeys(df))]]
        /\ UNCHANGED <<dlvars, appvars, imp, qvars, stepvars>>

\* os.makedirs(part_dir, exist_ok=True) and the file name of the group.
WP_Name ==
    \E w \in Writers :
        /\ writers[w].pc = "name"
        /\ LET ds == Head(writers[w].groups)
               fname == ImportName(now, Cardinality(localFiles[ds]) + 1)
           IN /\ localDirs' = localDirs \cup {ds}
              /\ writers' = [writers EXCEPT ![w] =
                    [@ EXCEPT !.pc = "write", !.fname = fname, !.names = @ \cup {<<ds, fname>>}]]
        /\ UNCHANGED <<localFiles, remote, nextId, now, commits, cache, faults, restarts, last>>
        /\ UNCHANGED <<dlvars, imp, qvars, stepvars>>

\* g.to_parquet(os.path.join(part_dir, fname)); touched.add(str(ds))
WP_Write ==
    \E w \in Writers :
        /\ writers[w].pc = "write"
        /\ LET ds == Head(writers[w].groups)
               fname == writers[w].fname
               rest == Tail(writers[w].groups)
           IN /\ localFiles' = [localFiles EXCEPT ![ds] =
                    {x \in @ : x.name # fname}
                    \cup {[name |-> fname, content |-> Group(writers[w].df, ds)]}]
              /\ writers' = [writers EXCEPT ![w] =
                    [@ EXCEPT !.pc = IF rest = <<>> THEN "ret" ELSE "name",
                              !.groups = rest, !.touched = @ \cup {ds}]]
        /\ UNCHANGED <<localDirs, remote, nextId, now, commits, cache, faults, restarts, last>>
        /\ UNCHANGED <<dlvars, imp, qvars, stepvars>>

\* return touched
WP_Return ==
    \E w \in Writers :
        /\ writers[w].pc = "ret"
        /\ writers' = [writers EXCEPT ![w] = [@ EXCEPT !.pc = "done", !.result = writers[w].touched]]
        /\ UNCHANGED <<dlvars, appvars, imp, qvars, stepvars>>

\* ------------------------------------------------------ parse_and_filter_df
req == <<"CAMPAIGNNAME", "Level1", "CallStartdate", "Insert_Dt", "attempt", "CallStatus">>

\* A cell as pd.read_csv delivers it, <<kind, value>>: a missing value, a
\* string with or without surrounding blanks, a number or a numeric string
\* (in tenths), a text that is no number, a timestamp string to_datetime can
\* read (the instant it denotes) or cannot.
Na == <<"na", "">>
IsNa(v) == v[1] = "na"
\* .astype(str) and .str.strip()
AsStr(v) == IF IsNa(v) THEN <<"str", "nan">> ELSE v
Strip(v) == <<"str", v[2]>>

NaN == 0 - 1
\* pd.to_numeric(errors="coerce"), .fillna(0), .astype(int)
to_numeric(v) == IF v[1] \in {"num", "numstr"} THEN v[2] ELSE NaN
fillna0(x) == IF x = NaN THEN 0 ELSE x
AsInt(x) == x \div 10

\* pd.to_datetime(errors="coerce"); the strings of the model are of a format
\* that the calls with and without dayfirst read alike.
to_datetime(v) == IF v[1] = "ts" THEN v[2] ELSE NaT

Abs(x) == IF x < 0 THEN 0 - x ELSE x

\* miss = [c for c in req if c not in df.columns]
MissingColumns(df) == SelectSeq(req, LAMBDA c : c \notin df.cols)

\* dropna(subset=["Level1"]); strip; df[df["Level1"] != ""]
HasKey(row) == ~IsNa(row.Level1) /\ Strip(AsStr(row.Level1)) # <<"str", "">>

CoercedAttempt(row) == AsInt(fillna0(to_numeric(row.attempt)))

\* A plausible slip: the status is compared without being stripped.
CleanStatus_raw(row) == AsStr(row.CallStatus)
CleanStatus(row) == Strip(AsStr(row.CallStatus))

\* df[(df["attempt"] == 1) & (df["CallStatus"] == "Connected")]
Keeps(row) == CoercedAttempt(row) = 1 /\ CleanStatus(row) = <<"str", "Connected">>

\* The columns of a row that parse_and_filter_df returns; idx is the index of
\* the row in the input, file the position of its file in the batch.
OutRow(k, row) ==
    LET cs == to_datetime(row.CallStartdate)
        ins == to_datetime(row.Insert_Dt)
    IN [file |-> 0, idx |-> k,
        CAMPAIGN |-> row.CAMPAIGNNAME,
        Level1 |-> Strip(AsStr(row.Level1)),
        attempt |-> CoercedAttempt(row),
        CallStatus |-> CleanStatus(row),
        CallStartdate |-> row.CallStartdate,
        DialSpeed |-> IF cs = NaT \/ ins = NaT THEN NaN ELSE Abs(cs - ins),
        Interval |-> IF ins = NaT THEN NaN ELSE ins % DayLen,
        Insert_Dt |-> ins]

parse_and_filter_df(df) ==
    LET miss == MissingColumns(df)
        index == [k \in DOMAIN df.rows |-> k]
        keyed == SelectSeq(index, LAMBDA k : HasKey(df.rows[k]))
        kept == SelectSeq(keyed, LAMBDA k : Keeps(df.rows[k]))
    IN IF miss # <<>> THEN [raised |-> "ValueError", miss |-> miss, rows |-> <<>>]
       ELSE [raised |-> "none", miss |-> <<>>,
             rows |-> [j \in DOMAIN kept |-> OutRow(kept[j], df.rows[kept[j]])]]

\* ------------------------------------------------------------ import flow
ImpIdle == [pc |-> "idle", batch |-> <<>>, i |-> 1, dfs |-> <<>>, total_rows |-> 0,
            warnings |-> <<>>, touched |-> {}]
ImpStart(batch) == [ImpIdle EXCEPT !.pc = "loop", !.batch = batch]

RECURSIVE Concat(_)
Concat(frames) == IF frames = <<>> THEN <<>> ELSE Head(frames) \o Concat(Tail(frames))

\* A plausible slip: the first file that cannot be processed ends the loop.
FileFailed_abort(st, i, r) ==
    [st EXCEPT !.warnings = Append(@, <<i, r.miss>>), !.i = Len(st.batch), !.dfs = <<>>]

\* except Exception as e: st.warning(f"Could not process {f.name}: {e}")
FileFailed(st, i, r) == [st EXCEPT !.warnings = Append(@, <<i, r.miss>>)]

\* One iteration of the loop over uploaded_files.
IF_ReadFile ==
    /\ imp.pc = "loop"
    /\ LET i == imp.i
           r == parse_and_filter_df(imp.batch[i])
           st1 == IF r.raised # "none" THEN FileFailed(imp, i, r)
                  ELSE IF r.rows = <<>> THEN imp
                  ELSE [imp EXCEPT !.total_rows = @ + Len(r.rows),
                                   !.dfs = Append(@, [j \in DOMAIN r.rows |->
                                                        [r.rows[j] EXCEPT !.file = i]])]
       IN imp' = [st1 EXCEPT !.i = @ + 1,
                             !.pc = IF st1.i >= Len(st1.batch) THEN "final" ELSE "loop"]
    /\ UNCHANGED <<dlvars, appvars, writers, qvars, stepvars>>

\* if not dfs: st.warning("No valid data found to import after filtering.")
IF_NoData ==
    /\ imp.pc = "final"
    /\ imp.dfs = <<>>
    /\ imp' = [imp EXCEPT !.pc = "end", !.warnings = Append(@, <<0, <<"No valid data">>>>)]
    /\ UNCHANGED <<dlvars, appvars, writers, qvars, stepvars>>

\* merged = pd.concat(dfs, ignore_index=True); dm.write_partitioned_parquet(merged)
IF_Commit ==
    /\ imp.pc = "final"
    /\ imp.dfs # <<>>
    /\ imp' = [imp EXCEPT !.pc = "commit"]
    /\ writers' = [writers EXCEPT ![1] = WriterStart(Concat(imp.dfs))]
    /\ UNCHANGED <<dlvars, appvars, qvars, stepvars>>

\* touched = the set write_partitioned_parquet returned
IF_Committed ==
    /\ imp.pc = "commit"
    /\ writers[1].pc = "done"
    /\ imp' = [imp EXCEPT !.pc = "end", !.touched = writers[1].result]
    /\ UNCHANGED <<dlvars, appvars, writers, qvars, stepvars>>

\* The input files of the model.
Level1s == {Na, <<"padded", "">>, <<"padded", "k">>, <<"str", "k">>}
Attempts == {<<"num", 10>>, <<"num", 15>>, <<"num", 20>>, <<"numstr", 10>>, <<"text", 0>>, <<"na", 0>>}
Statuses == {<<"str", "Connected">>, <<"padded", "Connected">>, <<"str", "connected">>, Na}
Stamps == {<<"bad", 0>>} \cup {<<"ts", t>> : t \in Instants}
RawRows ==
    {[CAMPAIGNNAME |-> <<"str", "A">>, Level1 |-> l, CallStartdate |-> cs, Insert_Dt |-> ins,
      attempt |-> a, CallStatus |-> s] :
        l \in Level1s, a \in Attempts, s \in Statuses, cs \in Stamps, ins \in Stamps}
GoodRow(cs, ins) ==
    [CAMPAIGNNAME |-> <<"str", "A">>, Level1 |-> <<"str", "k">>, CallStartdate |-> <<"ts", cs>>,
     Insert_Dt |-> <<"ts", ins>>, attempt |-> <<"num", 10>>, CallStatus |-> <<"str", "Connected">>]
Columns == {req[i] : i \in DOMAIN req}
Incomplete == {[cols |-> c, rows |-> <<GoodRow(0, 0)>>] : c \in (SUBSET Columns) \ {Columns}}
\* One file of up to MaxTableRows rows of any kind, or without some column.
FullFiles ==
    {[cols |-> Columns, rows |-> q] : q \in UNION {[1..n -> RawRows] : n \in 0..MaxTableRows}}
    \cup Incomplete
\* Files for the batches of several: a row that is kept, one that is
\* filtered out, one without a readable Insert_Dt, no row, a missing column.
SmallRows ==
    {GoodRow(0, t) : t \in Instants}
    \cup {[GoodRow(0, 0) EXCEPT !.attempt = <<"num", 20>>],
          [GoodRow(0, 0) EXCEPT !.Insert_Dt = <<"bad", 0>>]}
SmallFiles ==
    {[cols |-> Columns, rows |-> q] : q \in {<<>>} \cup {<<r>> : r \in SmallRows}}
    \cup {f \in Incomplete : Cardinality(Columns \ f.cols) <= 2}

\* ------------------------------------------------------------ query engine
\* A row of a partition file as the queries read it: the Date of its
\* directory, CAMPAIGN, Level1 (a number stands for the key), Interval and
\* "Dial Speed (seconds)", NaN where to_parquet wrote a null.
QDates == 1..MaxQDate
Campaigns == {"A", "B"}
Speeds == {NaN, 1, 4}
QRows ==
    [Date : 1..(MaxQDate - 1), CAMPAIGN : Campaigns, Level1 : 1..MaxKey, Interval : 0..1,
     speed : Speeds]

\* DATE_TRUNC('week', Date), with weeks of WeekLen days.
WeekOf(d) == d - ((d - 1) % WeekLen)

\* The value of the grouping columns of a row; <<>> for the overall stats.
GroupOf(r, group_by) ==
    [i \in DOMAIN group_by |->
        IF group_by[i] = "week_start_date" THEN WeekOf(r.Date) ELSE r[group_by[i]]]

\* WHERE Date BETWEEN d1 AND d2 AND CAMPAIGN IN camps
Scanned(store, d1, d2, camps) == {r \in store : d1 <= r.Date /\ r.Date <= d2 /\ r.CAMPAIGN \in camps}

\* MIN("Dial Speed (seconds)") over the rows of one (G, Level1): nulls are
\* skipped, and the minimum of nulls only is null.
MinSpeed(rows) ==
    LET vs == {r.speed : r \in rows} \ {NaN}
    IN IF vs = {} THEN NaN ELSE CHOOSE v \in vs : \A u \in vs : v <= u

\* MinSpeeds for one G: the observation of each Level1.
Observations(rows) ==
    LET keys == {r.Level1 : r \in rows}
    IN [k \in keys |-> MinSpeed({r \in rows : r.Level1 = k})]

\* A plausible slip: the observations are taken in the order of their keys.
Ascending_bykey(obs) ==
    LET keys == SortedSeq({x \in DOMAIN obs : obs[x] # NaN})
    IN [i \in DOMAIN keys |-> obs[keys[i]]]

\* The observations that are not null, in ascending order.
Ascending(obs) ==
    LET width == 100
        codes == SortedSeq({obs[k] * width + k : k \in {x \in DOMAIN obs : obs[x] # NaN}})
    IN [i \in DOMAIN codes |-> codes[i] \div width]

RECURSIVE UpTo(_, _)
\* The subsets of S with at most n elements.
UpTo(S, n) ==
    IF n = 0 THEN {{}}
    ELSE LET less == UpTo(S, n - 1) IN less \cup {T \cup {x} : T \in less, x \in S}

RECURSIVE SumSeq(_)
SumSeq(q) == IF q = <<>> THEN 0 ELSE Head(q) + SumSeq(Tail(q))

\* A plausible slip: the fraction is cut off.
RoundDiv_floor(a, b) == a \div b

\* ROUND(a / b)::INTEGER for a >= 0, b > 0: halves go away from zero.
RoundDiv(a, b) == (2 * a + b) \div (2 * b)

\* ROUND(QUANTILE_CONT(min_dial_speed, p/100.0))::INTEGER: interpolation
\* between the neighbours of position p/100 * (n - 1); null without values.
QuantileCont(xs, p) ==
    IF xs = <<>> THEN NaN
    ELSE LET pos == p * (Len(xs) - 1)
             lo == (pos \div 100) + 1
             hi == IF pos % 100 = 0 THEN lo ELSE lo + 1
         IN RoundDiv(xs[lo] * 100 + (xs[hi] - xs[lo]) * (pos % 100), 100)

\* COUNT, ROUND(AVG), the percentiles of the observations of one G.
StatsRow(g, obs, pvals) ==
    LET xs == Ascending(obs)
    IN [G |-> g, obs |-> obs,
        count |-> Len(xs),
        avg |-> IF xs = <<>> THEN NaN ELSE RoundDiv(SumSeq(xs), Len(xs)),
        ps |-> [i \in DOMAIN pvals |-> QuantileCont(xs, pvals[i])]]

\* The grouped query of get_summary and get_weekly_summary; ORDER BY is left
\* out, the rows are a set.
Grouped(store, d1, d2, camps, group_by, pvals) ==
    LET rows == Scanned(store, d1, d2, camps)
    IN {StatsRow(g, Observations({r \in rows : GroupOf(r, group_by) = g}), pvals) :
            g \in {GroupOf(r, group_by) : r \in rows}}

\* con.execute(q) raises: a fault of the engine, or no parquet file under
\* drive_cache for read_parquet to open.
Fails(store, fault) == fault \/ store = {}

\* A plausible slip: the exception of the query leaves the method.
QueryFailed_raise(empty) == [raised |-> "duckdb.Error", rows |-> empty]

\* except Exception: return pd.DataFrame() / default_stats
QueryFailed(empty) == [raised |-> "none", rows |-> empty]

get_summary(store, d1, d2, camps, group_by, pvals, fault) ==
    IF camps = {} \/ group_by = <<>> THEN [raised |-> "none", rows |-> {}]
    ELSE IF Fails(store, fault) THEN QueryFailed({})
    ELSE [raised |-> "none", rows |-> Grouped(store, d1, d2, camps, group_by, pvals)]

get_weekly_summary(store, d1, d2, camps, pvals, fault) ==
    IF camps = {} THEN [raised |-> "none", rows |-> {}]
    ELSE IF Fails(store, fault) THEN QueryFailed({})
    ELSE [raised |-> "none",
          rows |-> Grouped(store, d1, d2, camps, <<"week_start_date", "CAMPAIGN">>, pvals)]

\* default_stats = {"Call Count": 0, "Avg Dial Speed": 0, "P{p} DS": 0 ...}
default_stats(pvals) ==
    [G |-> <<>>, obs |-> <<>>, count |-> 0, avg |-> 0, ps |-> [i \in DOMAIN pvals |-> 0]]

\* get_overall_stats: the one row of the aggregate without GROUP BY.
get_overall_stats(store, d1, d2, camps, pvals, fault) ==
    IF camps = {} THEN [raised |-> "none", rows |-> {default_stats(pvals)}]
    ELSE IF Fails(store, fault) THEN QueryFailed({default_stats(pvals)})
    ELSE [raised |-> "none",
          rows |-> {StatsRow(<<>>, Observations(Scanned(store, d1, d2, camps)), pvals)}]

NoQuery == [shape |-> "none", d1 |-> 1, d2 |-> 1, camps |-> {}, group_by |-> <<>>,
            pvals |-> <<>>, fault |-> FALSE, raised |-> "none", rows |-> {}]

GroupBys == {<<>>, <<"CAMPAIGN">>, <<"Date">>, <<"Interval">>, <<"Date", "Interval", "CAMPAIGN">>}
Percentiles == {<<95, 90, 85>>, <<50>>}

Asked(shape, d1, d2, camps, group_by, pvals, fault, r) ==
    [shape |-> shape, d1 |-> d1, d2 |-> d2, camps |-> camps, group_by |-> group_by,
     pvals |-> pvals, fault |-> fault, raised |-> r.raised, rows |-> r.rows]

\* The methods keep no state between calls: a behaviour asks one query of
\* its store.
SummaryCall ==
    /\ qlast = NoQuery
    /\ \E d1 \in QDates, d2 \in QDates, camps \in SUBSET Campaigns, group_by \in GroupBys,
          pvals \in Percentiles, fault \in BOOLEAN :
          /\ d1 <= d2
          /\ qlast' = Asked("summary", d1, d2, camps, group_by, pvals, fault,
                            get_summary(qstore, d1, d2, camps, group_by, pvals, fault))
    /\ UNCHANGED <<dlvars, appvars, writers, imp, qstore, shown, stepvars>>

WeeklyCall ==
    /\ qlast = NoQuery
    /\ \E d1 \in QDates, d2 \in QDates, camps \in SUBSET Campaigns,
          pvals \in Percentiles, fault \in BOOLEAN :
          /\ d1 <= d2
          /\ qlast' = Asked("weekly", d1, d2, camps, <<"week_start_date", "CAMPAIGN">>, pvals, fault,
                            get_weekly_summary(qstore, d1, d2, camps, pvals, fault))
    /\ UNCHANGED <<dlvars, appvars, writers, imp, qstore, shown, stepvars>>

OverallCall ==
    /\ qlast = NoQuery
    /\ \E d1 \in QDates, d2 \in QDates, camps \in SUBSET Campaigns,
          pvals \in Percentiles, fault \in BOOLEAN :
          /\ d1 <= d2
          /\ qlast' = Asked("overall", d1, d2, camps, <<>>, pvals, fault,
                            get_overall_stats(qstore, d1, d2, camps, pvals, fault))
    /\ UNCHANGED <<dlvars, appvars, writers, imp, qstore, shown, stepvars>>

\* ------------------------------------------------- compute_all: the tables
\* The five frames of compute_all in row order; <<>> is the empty frame.
Tables == {"summary_by_camp", "summary_by_date", "weekly_summary", "by_interval", "dashboard"}
NoTables == [asked |-> FALSE, d1 |-> 1, d2 |-> 1, camps |-> {}, failing |-> {},
             frames |-> [t \in Tables |-> <<>>]]

\* The place of a campaign name in the order of strings.
CampRank(c) == IF c = "A" THEN 1 ELSE 2


\* ORDER BY {group_by_str} of get_summary for the grouping lists in use.
CampKey(row) == CampRank(row.G[1])
DateKey(row) == row.G[1]
IntervalKey(row) == row.G[1]
CrossKey(row) == (row.G[1] * 10 + row.G[2]) * 10 + CampRank(row.G[3])
\* ORDER BY "Week Date" DESC, CAMPAIGN of get_weekly_summary.
WeekKey(row) == (MaxQDate - row.G[1]) * 10 + CampRank(row.G[2])

\* by=["Date", "Interval"], ascending=[False, True]
DateDescIntervalKey(row) == (MaxQDate - row.G[1]) * 10 + row.G[2]

\* The sort key of a row under a named ordering.
KeyOf(by, row) ==
    CASE by = "CAMPAIGN" -> CampKey(row)
      [] by = "Date" -> DateKey(row)
      [] by = "Interval" -> IntervalKey(row)
      [] by = "Date, Interval, CAMPAIGN" -> CrossKey(row)
      [] by = "Week Date DESC, CAMPAIGN" -> WeekKey(row)
      [] by = "Date DESC, Interval" -> DateDescIntervalKey(row)

\* ORDER BY of the grouped queries: the rows in ascending order of the key.
OrderBy(rows, by) ==
    LET codes == SortedSeq({KeyOf(by, r) : r \in rows})
    IN [i \in DOMAIN codes |-> CHOOSE r \in rows : KeyOf(by, r) = codes[i]]

\* DataFrame.sort_values(by, ascending): a stable sort of the frame by the
\* key, downwards when ascending is False. The frame is left alone when empty.
sort_values(q, by, ascending) ==
    LET big == 1000
        code(i) == (IF ascending THEN KeyOf(by, q[i]) ELSE big - KeyOf(by, q[i])) * 100 + i
        codes == SortedSeq({code(i) : i \in DOMAIN q})
    IN [i \in DOMAIN codes |-> q[codes[i] % 100]]


\* compute_all(d1q, d2q, camps, pvals): the five frames as the tabs get
\* them; failing holds the queries that raise inside the data manager.
compute_all_frames(store, d1, d2, camps, pvals, failing) ==
    LET summary_by_camp ==
            OrderBy(get_summary(store, d1, d2, camps, <<"CAMPAIGN">>, pvals,
                                "summary_by_camp" \in failing).rows, "CAMPAIGN")
        summary_by_date ==
            OrderBy(get_summary(store, d1, d2, camps, <<"Date">>, pvals,
                                "summary_by_date" \in failing).rows, "Date")
        weekly_summary ==
            OrderBy(get_weekly_summary(store, d1, d2, camps, pvals,
                                       "weekly_summary" \in failing).rows, "Week Date DESC, CAMPAIGN")
        by_interval ==
            OrderBy(get_summary(store, d1, d2, camps, <<"Interval">>, pvals,
                                "by_interval" \in failing).rows, "Interval")
        dashboard ==
            OrderBy(get_summary(store, d1, d2, camps, <<"Date", "Interval", "CAMPAIGN">>, pvals,
                                "dashboard" \in failing).rows, "Date, Interval, CAMPAIGN")
    IN [summary_by_camp |-> summary_by_camp,
        summary_by_date |-> sort_values(summary_by_date, "Date", FALSE),
        weekly_summary |-> weekly_summary,
        by_interval |-> sort_values(by_interval, "Interval", TRUE),
        dashboard |-> sort_values(dashboard, "Date DESC, Interval", TRUE)]

\* A run of the Dashboard tab with campaigns selected.
ComputeAllCall ==
    /\ ~shown.asked
    /\ \E d1 \in QDates, d2 \in QDates, camps \in (SUBSET Campaigns) \ {{}},
          failing \in UpTo(Tables, MaxQueryFaults) :
          /\ d1 <= d2
          /\ shown' = [asked |-> TRUE, d1 |-> d1, d2 |-> d2, camps |-> camps, failing |-> failing,
                       frames |-> compute_all_frames(qstore, d1, d2, camps, <<95, 90, 85>>, failing)]
    /\ UNCHANGED <<dlvars, appvars, writers, imp, qstore, qlast, stepvars>>

\* The stores of the model: up to MaxStore rows of any kind, and the six
\* rows of campaign "A" with the speeds 10, 20, 30 on date 1, 5 on date 2 and
\* 40, 50 on date 3, under every way of giving them Level1 keys.
ScenarioSpeeds == <<10, 20, 30, 5, 40, 50>>
ScenarioDates == <<1, 1, 1, 2, 3, 3>>
KeyChoices ==
    {f \in [DOMAIN ScenarioSpeeds -> DOMAIN ScenarioSpeeds] :
        /\ f[1] = 1
        /\ \A i \in DOMAIN f : i > 1 => \E j \in 1..(i - 1) : f[i] <= f[j] + 1}
ScenarioStore(f) ==
    {[Date |-> ScenarioDates[i], CAMPAIGN |-> "A", Level1 |-> f[i], Interval |-> 0,
      speed |-> ScenarioSpeeds[i]] : i \in DOMAIN ScenarioSpeeds}
Stores ==
    UpTo(QRows, MaxStore) \cup {ScenarioStore(f) : f \in KeyChoices}

\* ------------------------------------------------- list_children, by steps
\* The objects of the store as files().list sees them.
ListIds == 1..MaxListIds
ListParents == {Root, 1}
ListObjects ==
    [ListIds -> [parent : ListParents, trashed : BOOLEAN, folder : BOOLEAN]]

\* page_token = None
NoToken == 0

\* q: '<parent_id>' in parents and trashed=false [and mimeType='<mime_type>'];
\* mime_type is the folder type or None (folders_only FALSE).
Matching(objs, parent_id, folders_only) ==
    {i \in ListIds : /\ i # parent_id
                     /\ objs[i].parent = parent_id
                     /\ ~objs[i].trashed
                     /\ folders_only => objs[i].folder}

\* The ways the store may cut a result into pages: np responses, the items in
\* the order of their ids, each on one page, pages of any size and empty ones
\* among them.
Pagings(ids) ==
    LET q == SortedSeq(ids)
    IN UNION {{[k \in 1..np |-> SelectSeq(q, LAMBDA x : at[x] = k)] :
                  at \in {f \in [ids -> 1..np] : \A x \in ids, y \in ids : x < y => f[x] <= f[y]}} :
              np \in 1..MaxPages}

\* resp of files().list(pageToken=page_token): the page asked for, and the
\* token of the next page when there is one.
ListResponse(pages, page_token) ==
    LET k == IF page_token = NoToken THEN 1 ELSE page_token
    IN [files |-> pages[k],
        nextPageToken |-> IF k < Len(pages) THEN k + 1 ELSE NoToken]

\* A plausible slip: the loop ends after the first response.
Exhausted_first(page_token) == TRUE

\* if not page_token: break
Exhausted(page_token) == page_token = NoToken

LcIdle == [pc |-> "idle", objs |-> <<>>, parent_id |-> Root, folders_only |-> FALSE,
           pages |-> <<>>, page_token |-> NoToken, files |-> <<>>]

\* list_children(drive, parent_id, mime_type) is entered: files, page_token
\* = [], None. The store fixes how it will page the result.
LC_Call ==
    /\ lc.pc = "called"
    /\ \E parent_id \in ListParents, folders_only \in BOOLEAN :
         \E pages \in Pagings(Matching(lc.objs, parent_id, folders_only)) :
            lc' = [lc EXCEPT !.pc = "loop", !.parent_id = parent_id,
                             !.folders_only = folders_only, !.pages = pages,
                             !.page_token = NoToken, !.files = <<>>]
    /\ UNCHANGED <<dlvars, appvars, writers, imp, qvars, ep, sess>>

\* One turn of the while loop: the request, files.extend, the new token, the
\* break.
LC_Request ==
    /\ lc.pc = "loop"
    /\ LET resp == ListResponse(lc.pages, lc.page_token)
       IN lc' = [lc EXCEPT !.files = @ \o resp.files,
                           !.page_token = resp.nextPageToken,
                           !.pc = IF Exhausted(resp.nextPageToken) THEN "done" ELSE "loop"]
    /\ UNCHANGED <<dlvars, appvars, writers, imp, qvars, ep, sess>>

\* .execute() raises: the error leaves list_children.
LC_Raise ==
    /\ lc.pc = "loop"
    /\ lc' = [lc EXCEPT !.pc = "raised", !.files = <<>>]
    /\ UNCHANGED <<dlvars, appvars, writers, imp, qvars, ep, sess>>

\* ------------------------------------------ ensure_partition_folder, by steps
\* Two script runs of "Process & Import Files" (two sessions of the server)
\* inside upload_new_local_files, each for one date and one file, against one
\* store. pc: begin, find (before find_child_by_name), create (before
\* create_subfolder), upload (before upload_file), done.
Importers == 1..2
EpProcIdle == [pc |-> "begin", ds |-> 1, dest_id |-> NoObj.id]
EpIdle == [rem |-> {}, nid |-> 1, procs |-> [p \in Importers |-> EpProcIdle]]
EpStore(e1) == [rem |-> e1.rem, nid |-> e1.nid, calls |-> <<>>]

\* for ds in dates_affected: the directory exists, the import just wrote it.
EP_Begin ==
    /\ \E p \in Importers, ds \in Dates :
          /\ ep.procs[p].pc = "begin"
          /\ ep' = [ep EXCEPT !.procs[p] = [pc |-> "find", ds |-> ds, dest_id |-> NoObj.id]]
    /\ UNCHANGED <<dlvars, appvars, writers, imp, qvars, lc, sess>>

\* found = find_child_by_name(drive, root_id, name)
EP_Find ==
    /\ \E p \in Importers :
          /\ ep.procs[p].pc = "find"
          /\ LET found == find_child_by_name(ep.rem, Root, PartName(ep.procs[p].ds))
             IN ep' = [ep EXCEPT !.procs[p].pc = IF found = NoObj THEN "create" ELSE "upload",
                                 !.procs[p].dest_id = found.id]
    /\ UNCHANGED <<dlvars, appvars, writers, imp, qvars, lc, sess>>

\* return ... create_subfolder(drive, root_id, name)
EP_Create ==
    /\ \E p \in Importers :
          /\ ep.procs[p].pc = "create"
          /\ LET r == create_subfolder(EpStore(ep), Root, PartName(ep.procs[p].ds))
             IN ep' = [ep EXCEPT !.rem = r.rem, !.nid = r.nid,
                                 !.procs[p].pc = "upload", !.procs[p].dest_id = ep.nid]
    /\ UNCHANGED <<dlvars, appvars, writers, imp, qvars, lc, sess>>

\* upload_file(drive, dest_id, fpath) for the file of the import
EP_Upload ==
    /\ \E p \in Importers :
          /\ ep.procs[p].pc = "upload"
          /\ LET r == upload_file(EpStore(ep), ep.procs[p].dest_id,
                                  [name |-> ImportName(0, p), content |-> p])
             IN ep' = [ep EXCEPT !.rem = r.rem, !.nid = r.nid, !.procs[p].pc = "done"]
    /\ UNCHANGED <<dlvars, appvars, writers, imp, qvars, lc, sess>>

\* ------------------------------------------------- login gate, script runs
\* An email as typed, <<form, address>>: plain, or padded and in capitals.
\* hash_email strips and lowers before hashing, so the hash depends on the
\* address alone.
Addresses == {"a", "b"}
Emails == {<<form, a>> : form \in {"plain", "padded capitals"}, a \in Addresses}
hash_email(email) == <<"sha256", email[2]>>

\* A plausible slip: the password is not compared.
check_password_any(plain, hashed_bcrypt) == TRUE

\* bcrypt.checkpw; a stored value that is no bcrypt hash makes it raise, and
\* the exception gives False.
check_password(plain, hashed_bcrypt) == hashed_bcrypt[1] = "bcrypt" /\ hashed_bcrypt[2] = plain

\* A role as configured, <<case, word>>; NoRole: the record has no "role".
NoRole == <<"missing", "">>
Roles == {<<"lower", "admin">>, <<"mixed", "admin">>, <<"lower", "user">>, NoRole}
Passwords == {"p", "q"}
UserRecords ==
    [email_hash : {hash_email(<<"plain", a>>) : a \in Addresses},
     password_bcrypt : {<<"bcrypt", "p">>, <<"no hash", "">>},
     role : Roles]

\* st.secrets["auth"]["users"]
UserLists == UNION {[1..n -> UserRecords] : n \in 0..MaxUsers}

\* "auth_user" not in st.session_state
NoUser == [email_hash |-> <<"none", "">>, role |-> NoRole]

\* rec.get("role", "user")
RoleOf(rec) == IF rec.role = NoRole THEN <<"lower", "user">> ELSE rec.role

\* IS_ADMIN = (user.get("role", "user").lower() == "admin")
IS_ADMIN(user) == RoleOf(user)[2] = "admin"

\* login_gate on submit: the first record with the hash of the email, and its
\* password checked; the new auth_user, or NoUser.
Login(users, email, password) ==
    LET email_hash == hash_email(email)
        hits == {i \in DOMAIN users : users[i].email_hash = email_hash}
    IN IF hits = {} THEN NoUser
       ELSE LET rec == users[CHOOSE i \in hits : \A j \in hits : i <= j]
            IN IF check_password(password, rec.password_bcrypt)
               THEN [email_hash |-> email_hash, role |-> RoleOf(rec)]
               ELSE NoUser

Sessions == 1..MaxSessions
NoRun == [s |-> 1, kind |-> "none", ops |-> {}, user |-> NoUser, admin |-> FALSE]
SessIdle == [users |-> <<>>, auth_user |-> [s \in Sessions |-> NoUser],
             proved |-> [s \in Sessions |-> FALSE], lastrun |-> NoRun]

\* What the browser of a session sends with a script run. Without auth_user
\* only the login form exists; with it the sidebar, the tab menu (whose value
\* is whatever the component sends) and the button of the tab.
LoginInputs ==
    [submit : BOOLEAN, email : Emails, password : Passwords]
MainInputs ==
    [init_fails : BOOLEAN, logout : BOOLEAN, missing_dates : BOOLEAN,
     selected_tab : {"Dashboard", "Import Data", "Manage Data"},
     selected_campaigns : BOOLEAN, button : BOOLEAN]

\* The script from the login gate on, without auth_user: kind and the new
\* auth_user.
GateRun(users, inp) ==
    IF users = <<>> THEN [kind |-> "not configured", user |-> NoUser]
    ELSE IF ~inp.submit THEN [kind |-> "login form", user |-> NoUser]
    ELSE LET u == Login(users, inp.email, inp.password)
         IN [kind |-> IF u = NoUser THEN "login failed" ELSE "login", user |-> u]

\* The script after the login gate: the operations the run performs.
MainOps(user, inp) ==
    IF inp.init_fails \/ inp.logout THEN {}
    ELSE (IF inp.missing_dates THEN {"sync"} ELSE {})
         \cup {"query"}
         \cup (CASE inp.selected_tab = "Dashboard" ->
                      IF inp.selected_campaigns THEN {"query"} ELSE {}
                 [] inp.selected_tab = "Import Data" ->
                      IF IS_ADMIN(user) /\ inp.button THEN {"commit", "upload"} ELSE {}
                 [] inp.selected_tab = "Manage Data" ->
                      IF IS_ADMIN(user) /\ inp.button THEN {"delete"} ELSE {})

\* One script run of session s. proved[s] records that the session's
\* auth_user was set for credentials that some configured record matches, and
\* not cleared since.
ScriptRun ==
    /\ \E s \in Sessions :
         LET user == sess.auth_user[s]
         IN IF user = NoUser
            THEN \E inp \in LoginInputs :
                   LET r == GateRun(sess.users, inp)
                       matches == \E i \in DOMAIN sess.users :
                                     /\ sess.users[i].email_hash[2] = inp.email[2]
                                     /\ sess.users[i].password_bcrypt = <<"bcrypt", inp.password>>
                   IN sess' = [sess EXCEPT
                                 !.auth_user[s] = r.user,
                                 !.proved[s] = r.user # NoUser /\ matches,
                                 !.lastrun = [s |-> s, kind |-> r.kind, ops |-> {},
                                              user |-> NoUser, admin |-> FALSE]]
            ELSE \E inp \in MainInputs :
                   sess' = [sess EXCEPT
                              !.auth_user[s] = IF inp.logout /\ ~inp.init_fails THEN NoUser ELSE @,
                              !.proved[s] = IF inp.logout /\ ~inp.init_fails THEN FALSE ELSE @,
                              !.lastrun = [s |-> s,
                                           kind |-> IF inp.init_fails THEN "init failed"
                                                    ELSE IF inp.logout THEN "logout" ELSE "main",
                                           ops |-> MainOps(user, inp),
                                           user |-> user, admin |-> IS_ADMIN(user)]]
    /\ UNCHANGED <<dlvars, appvars, writers, imp, qvars, lc, ep>>

StepIdle == lc = LcIdle /\ ep = EpIdle /\ sess = SessIdle

IngIdle ==
    /\ writers = [w \in Writers |-> WriterIdle]
    /\ imp = ImpIdle
    /\ qstore = {}
    /\ qlast = NoQuery
    /\ shown = NoTables
    /\ StepIdle

\* ----------------------------------------------------------- specifications
AppInit ==
    /\ localDirs = {}
    /\ localFiles = EmptyFiles
    /\ remote = {}
    /\ nextId = 1
    /\ now = 0
    /\ commits = 0
    /\ cache = {}
    /\ faults = 0
    /\ restarts = 0
    /\ last = NoLast

DLInit ==
    /\ IngIdle
    /\ pc = "clean"
    /\ max_attempts \in 1..MaxAttempts
    /\ size \in 1..MaxChunks
    /\ attempt = 0
    /\ tmp_path \in {Absent, <<>>, <<1>>}
    /\ local_path \in {Absent, OldContent}
    /\ local_path0 = local_path
    /\ e = NoError
    /\ raised = NoError
    /\ log = <<>>
    /\ AppInit

DLIdle ==
    /\ pc = "idle"
    /\ max_attempts = DefaultMaxAttempts
    /\ size = 1
    /\ attempt = 0
    /\ tmp_path = Absent
    /\ local_path = Absent
    /\ local_path0 = Absent
    /\ e = NoError
    /\ raised = NoError
    /\ log = <<>>

NextDL ==
    \/ DL_Clean
    \/ DL_Open
    \/ DL_NextChunk
    \/ DL_ChunkFail
    \/ DL_Replace
    \/ DL_Except
    \/ DL_Sleep
    \/ DL_FallbackGet
    \/ DL_FallbackOpen
    \/ DL_FallbackWrite
    \/ DL_FallbackReplace
    \/ DL_Cleanup
    \/ DL_Crash

SpecDL == DLInit /\ [][NextDL]_vars


Init == DLIdle /\ AppInit /\ IngIdle

\* The sync manager under faults of the store and of the disk.
Next ==
    \/ Tick
    \/ Restart
    \/ EnsureCall
    \/ Import
    \/ DeleteCall

Spec == Init /\ [][Next]_vars

\* The dashboard and its cache in runs without faults and restarts: the
\* budgets of both are spent from the start.
InitCache ==
    /\ DLIdle
    /\ IngIdle
    /\ localDirs = {}
    /\ localFiles = EmptyFiles
    /\ remote = {}
    /\ nextId = 1
    /\ now = 0
    /\ commits = 0
    /\ cache = {}
    /\ faults = MaxFaults
    /\ restarts = MaxRestarts
    /\ last = NoLast

NextCache ==
    \/ Import
    \/ DeleteCall
    \/ Dashboard

SpecCache == InitCache /\ [][NextCache]_vars


\* The uploads of the import flow and calls of upload_new_local_files on
\* their own, without faults.
NextUpload ==
    \/ Tick
    \/ Import
    \/ UploadCall
    \/ DeleteCall

SpecUpload == InitCache /\ [][NextUpload]_vars


\* Script runs of several sessions, each committing one frame, on an empty
\* cache directory.
InitCommit ==
    /\ DLIdle
    /\ localDirs = {}
    /\ localFiles = EmptyFiles
    /\ remote = {}
    /\ nextId = 1
    /\ now = 0
    /\ commits = 0
    /\ cache = {}
    /\ faults = MaxFaults
    /\ restarts = MaxRestarts
    /\ last = NoLast
    /\ imp = ImpIdle
    /\ qstore = {}
    /\ qlast = NoQuery
    /\ shown = NoTables
    /\ StepIdle
    /\ \E f \in [Writers -> UNION {Frames(w) : w \in Writers}] :
          /\ \A w \in Writers : f[w] \in Frames(w)
          /\ writers = [w \in Writers |-> WriterStart(f[w])]

NextCommit ==
    \/ WP_Begin
    \/ WP_Name
    \/ WP_Write
    \/ WP_Return
    \/ Tick

SpecCommit == InitCommit /\ [][NextCommit]_vars


\* One run of "Process & Import Files" up to the end of its commit, on an
\* empty cache directory: with one file of any kind (SpecParse), with
\* several files (SpecBatch).
InitFlow ==
    /\ DLIdle
    /\ localDirs = {}
    /\ localFiles = EmptyFiles
    /\ remote = {}
    /\ nextId = 1
    /\ now = 0
    /\ commits = 0
    /\ cache = {}
    /\ faults = MaxFaults
    /\ restarts = MaxRestarts
    /\ last = NoLast
    /\ writers = [w \in Writers |-> WriterIdle]
    /\ qstore = {}
    /\ qlast = NoQuery
    /\ shown = NoTables
    /\ StepIdle

InitParse == InitFlow /\ imp \in {ImpStart(<<f>>) : f \in FullFiles}

InitBatch ==
    /\ InitFlow
    /\ imp \in {ImpStart(b) : b \in UNION {[1..n -> SmallFiles] : n \in 2..MaxFiles}}

NextFlow ==
    \/ IF_ReadFile
    \/ IF_NoData
    \/ IF_Commit
    \/ WP_Begin
    \/ WP_Name
    \/ WP_Write
    \/ WP_Return
    \/ IF_Committed

SpecParse == InitParse /\ [][NextFlow]_vars

SpecBatch == InitBatch /\ [][NextFlow]_vars


\* Queries against a cache that holds any of the stores.
InitQuery ==
    /\ DLIdle
    /\ AppInit
    /\ writers = [w \in Writers |-> WriterIdle]
    /\ imp = ImpIdle
    /\ qstore \in Stores
    /\ qlast = NoQuery
    /\ shown = NoTables
    /\ StepIdle

NextQuery ==
    \/ SummaryCall
    \/ WeeklyCall
    \/ OverallCall

SpecQuery == InitQuery /\ [][NextQuery]_vars


\* The Dashboard tab over a cache that holds any of the stores.
NextTables == ComputeAllCall

SpecTables == InitQuery /\ [][NextTables]_vars

\* list_children over any store of MaxListIds objects; the loop is a
\* running thread, so its next turn is taken.
InitList ==
    /\ DLIdle
    /\ AppInit
    /\ writers = [w \in Writers |-> WriterIdle]
    /\ imp = ImpIdle
    /\ qstore = {}
    /\ qlast = NoQuery
    /\ shown = NoTables
    /\ ep = EpIdle
    /\ sess = SessIdle
    /\ \E objs \in ListObjects : lc = [LcIdle EXCEPT !.pc = "called", !.objs = objs]

NextList ==
    \/ LC_Call
    \/ LC_Request
    \/ LC_Raise

SpecList == InitList /\ [][NextList]_vars /\ WF_vars(LC_Call) /\ WF_vars(LC_Request \/ LC_Raise)

\* The sync manager with process deaths in the middle of a download.
NextResync ==
    \/ Tick
    \/ Restart
    \/ CrashedDownload
    \/ EnsureCall
    \/ Import
    \/ DeleteCall

SpecResync == Init /\ [][NextResync]_vars

\* Deletion and sync over stores in which the root may hold two folders
\* named Date=1 (two imports that both created the folder), each with or
\* without a file, and over any local cache of one file per date at most.
DupFolder(i, n) ==
    IF n = 0 THEN {}
    ELSE {[id |-> i, parent |-> Root, folder |-> TRUE, name |-> PartName(1), content |-> 0]}
         \cup (IF n = 1 THEN {}
               ELSE {[id |-> i + 2, parent |-> i, folder |-> FALSE,
                      name |-> ImportName(0, i), content |-> i]})
DupStores == {DupFolder(1, n) \cup DupFolder(2, m) : n \in 0..2, m \in 0..2}

InitDup ==
    /\ DLIdle
    /\ IngIdle
    /\ remote \in DupStores
    /\ localDirs \in SUBSET Dates
    /\ \E held \in SUBSET localDirs :
          localFiles = [d \in Dates |->
                          IF d \in held THEN {[name |-> ImportName(0, 1), content |-> 1]} ELSE {}]
    /\ nextId = MaxIds + 1
    /\ now = 0
    /\ commits = 0
    /\ cache = {}
    /\ faults = 0
    /\ restarts = MaxRestarts
    /\ last = NoLast

NextDup ==
    \/ EnsureCall
    \/ DeleteCall

SpecDup == InitDup /\ [][NextDup]_vars

\* Two imports against a store that holds the folder of date 1 or nothing.
InitFolder ==
    /\ DLIdle
    /\ AppInit
    /\ writers = [w \in Writers |-> WriterIdle]
    /\ imp = ImpIdle
    /\ qstore = {}
    /\ qlast = NoQuery
    /\ shown = NoTables
    /\ lc = LcIdle
    /\ sess = SessIdle
    /\ \/ ep = EpIdle
       \/ ep = [EpIdle EXCEPT
                  !.rem = {[id |-> 1, parent |-> Root, folder |-> TRUE,
                            name |-> PartName(1), content |-> 0]},
                  !.nid = 2]

NextFolder ==
    \/ EP_Begin
    \/ EP_Find
    \/ EP_Create
    \/ EP_Upload

SpecFolder == InitFolder /\ [][NextFolder]_vars

\* The sessions of the server under any list of configured users.
InitAuth ==
    /\ DLIdle
    /\ AppInit
    /\ writers = [w \in Writers |-> WriterIdle]
    /\ imp = ImpIdle
    /\ qstore = {}
    /\ qlast = NoQuery
    /\ shown = NoTables
    /\ lc = LcIdle
    /\ ep = EpIdle
    /\ \E users \in UserLists : sess = [SessIdle EXCEPT !.users = users]

NextAuth == ScriptRun

SpecAuth == InitAuth /\ [][NextAuth]_vars

\* ------------------------------------------------- download_file: claims
IsPartial(f) == f # Absent /\ f # OldContent /\ Len(f) < size

\* C1: whatever download_file does (success, failed attempts, a crash at any
\* point), the destination holds what it held before the call or the complete
\* object, never a part of it; it changes only in an os.replace step whose
\* temporary file is completely written, and takes exactly that content.
C1_AtomicRename ==
    [][ /\ local_path' \in {local_path0, Content(size)}
        /\ local_path' # local_path =>
             /\ pc \in {"replace", "fb_replace"}
             /\ tmp_path = Content(size)
             /\ local_path' = tmp_path ]_vars

\* A crash in the middle of a transfer: the part is in the temporary file and
\* the destination still holds the old content.
C1_Witness ==
    /\ pc = "crashed"
    /\ tmp_path # Absent /\ tmp_path # <<>> /\ Len(tmp_path) < size
    /\ local_path0 = OldContent
    /\ local_path = OldContent

LogKind(i) == log[i][1]
IsTransfer(i) == LogKind(i) \in {"chunked", "whole"}
ChunkedBefore(i) == Cardinality({j \in 1..(i - 1) : LogKind(j) = "chunked"})

\* C2: with max_attempts = N >= 1 there are at most N chunked attempts,
\* numbered 1, 2, ..; the k-th failed chunked attempt (k < N) is followed by a
\* sleep of min(2^k, 10) seconds and only then by the next attempt; the
\* whole-object fallback happens at most once and directly after the failure
\* of chunked attempt N; nothing is transferred after a success.
C2_RetrySchedule ==
    /\ Cardinality({i \in DOMAIN log : LogKind(i) = "chunked"}) <= max_attempts
    /\ Cardinality({i \in DOMAIN log : LogKind(i) = "whole"}) <= 1
    /\ \A i \in DOMAIN log :
         /\ LogKind(i) = "chunked" =>
              /\ log[i][2] = ChunkedBefore(i) + 1
              /\ i > 1 => LogKind(i - 1) = "sleep"
         /\ LogKind(i) = "whole" =>
              /\ i > 1
              /\ log[i - 1] = <<"chunked", max_attempts, 0>>
         /\ LogKind(i) = "sleep" =>
              /\ i > 1
              /\ LogKind(i - 1) = "chunked"
              /\ log[i - 1][3] = 0
              /\ log[i - 1][2] < max_attempts
              /\ log[i][3] = (IF 2 ^ log[i - 1][2] < 10 THEN 2 ^ log[i - 1][2] ELSE 10)
         /\ (IsTransfer(i) /\ log[i][3] = 1) => i = Len(log)
    /\ pc \in {"open", "next_chunk", "replace"} /\ attempt > 1 =>
         log[Len(log)] = <<"sleep", attempt - 1, (IF 2 ^ (attempt - 1) < 10 THEN 2 ^ (attempt - 1) ELSE 10)>>
    /\ pc = "returned" => log[Len(log)][3] = 1

\* The fifth chunked attempt starts after sleeps of 2, 4, 8 and 10 seconds.
C2_Witness ==
    /\ pc = "next_chunk"
    /\ attempt = 5
    /\ [i \in 1..4 |-> log[2 * i][3]] = <<2, 4, 8, 10>>

Outcomes(l, kind, outcome) ==
    {l.calls[i][2] : i \in {j \in DOMAIN l.calls : l.calls[j][1] = kind /\ l.calls[j][3] = outcome}}
NoErrCall(l) == \A i \in DOMAIN l.calls : l.calls[i][3] # "err"
NoListErr(l) == \A i \in DOMAIN l.calls : ~(l.calls[i][1] = "list" /\ l.calls[i][3] = "err")
FoldersNamed(rem, d) == {o \in rem : o.folder /\ o.parent = Root /\ o.name = PartName(d)}
FilesBelow(rem, d) == {o \in rem : ~o.folder /\ \E fo \in FoldersNamed(rem, d) : o.parent = fo.id}

\* C4: when only downloads fail, ensure_local_partitions_for_dates returns
\* without raising, goes through every date, attempts every file of every
\* partition it fetches, warns once per failed file, and every file whose
\* download succeeded is in its local directory with the content of an
\* object of that name downloaded from that folder.
C4_DownloadFailureNotFatal ==
    [][ (last'.op = "ensure" /\ NoListErr(last')) =>
          LET l == last'
              ok == Outcomes(l, "download", "ok")
              bad == Outcomes(l, "download", "err")
          IN /\ l.raised = "none"
             /\ l.done = l.dates
             /\ \A d \in l.dates :
                  (d \notin localDirs \/ localFiles[d] = {}) =>
                      {o.id : o \in FilesBelow(remote, d)} \subseteq ok \cup bad
             /\ Range(l.warnings) = bad
             /\ Len(l.warnings) = Cardinality(bad)
             /\ \A d \in Dates : \A o \in FilesBelow(remote, d) :
                  o.id \in ok =>
                     \E p \in FilesBelow(remote, d) :
                        /\ p.id \in ok /\ p.name = o.name
                        /\ [name |-> o.name, content |-> p.content] \in localFiles'[d] ]_vars

\* One download of a partition failed and a later one of the same call
\* succeeded.
C4_Witness ==
    /\ last.op = "ensure"
    /\ last.raised = "none"
    /\ \E i, j \in DOMAIN last.calls :
         /\ i < j
         /\ last.calls[i][1] = "download" /\ last.calls[i][3] = "err"
         /\ last.calls[j][1] = "download" /\ last.calls[j][3] = "ok"
    /\ Len(last.warnings) = 1

\* C5: a dashboard query returns the result computed from the partition
\* files now present, so never one cached before an import or a deletion
\* changed them.
C5_QueryRecomputed ==
    last.op = "dashboard" =>
        last.result = UNION {{<<d, f.name, f.content>> : f \in localFiles[d]} :
                              d \in last.key[1]..last.key[2]}

\* C6: in ensure_local_partitions_for_dates, upload_new_local_files and
\* delete_dates_remote_and_local a remote failure inside one date partition
\* (any call but the listing of the root) leaves at most that one date
\* unprocessed.
C6_SiblingsProcessed ==
    (/\ last.op \in {"ensure", "import", "delete"}
     /\ last.raised = "remote"
     /\ last.calls[Len(last.calls)] # <<"list", Root, "err">>)
    => Cardinality(last.dates \ last.done) <= 1

\* C7: a date is in list_local_dates() exactly when its directory exists and
\* holds at least one file.
C7_ListedIffNonEmpty ==
    \A d \in Dates :
        d \in list_local_dates(localDirs, localFiles) <=> (d \in localDirs /\ localFiles[d] # {})

\* C8: a call of ensure_local_partitions_for_dates right after an import, for
\* a date the import wrote, lists and downloads nothing of that date and
\* leaves its directory as it is.
C8_CommittedDateNotFetched ==
    [][ (last'.op = "ensure") =>
          \A d \in last'.touched \cap last'.dates :
             /\ localFiles'[d] = localFiles[d]
             /\ d \in localDirs'
             /\ \A o \in remote :
                  (o \in FoldersNamed(remote, d) \/ o \in FilesBelow(remote, d)) =>
                      \A i \in DOMAIN last'.calls : last'.calls[i][2] # o.id ]_vars

\* ensure is called for a date just committed whose remote folder holds a
\* file.
C8_Witness ==
    /\ last.op = "ensure"
    /\ \E d \in last.touched \cap last.dates :
         /\ FilesBelow(remote, d) # {}
         /\ \E f \in localFiles[d] : f.content = commits

\* C9: a partition uploaded into a folder created for it, wiped from the
\* disk and fetched again with every remote call succeeding has the same file
\* names and contents as before the upload.
C9_RoundTrip ==
    (last.op = "ensure" /\ NoErrCall(last)) =>
        \A d \in last.fresh \cap last.dates :
            /\ localFiles[d] = last.snap[d]
            /\ d \in localDirs

\* The round trip of a partition of two files.
C9_Witness ==
    /\ last.op = "ensure"
    /\ NoErrCall(last)
    /\ \E d \in last.fresh \cap last.dates : Cardinality(localFiles[d]) = 2

NothingLeft(dirs, rem, dates) == \A d \in dates : d \notin dirs /\ FoldersNamed(rem, d) = {}

C11_DeleteOrder ==
    [][ (last'.op = "delete") =>
          LET l == last'
              At(kind, x) == {i \in DOMAIN l.calls : l.calls[i][1] = kind /\ l.calls[i][2] = x}
          IN /\ \A d \in l.dates : \A fo \in FoldersNamed(remote, d) :
                  /\ \A i \in At("delete", fo.id) :
                        \A o \in {x \in remote : x.parent = fo.id} :
                            \E j \in At("delete", o.id) : j < i
                  /\ \A i \in At("rmtree", d) :
                        /\ \E j \in At("delete", fo.id) : j < i
                        /\ \A o \in {x \in remote : x.parent = fo.id} :
                              \A j \in At("delete", o.id) \cup At("list", fo.id) : j < i
             /\ \A d \in l.done :
                  /\ FoldersNamed(remote', d) = {}
                  /\ d \in localDirs => At("rmtree", d) # {}
                  /\ (d \in localDirs /\ FoldersNamed(remote, d) = {}
                        /\ \A i \in At("rmtree", d) : l.calls[i][3] = "ok") => d \notin localDirs'
             /\ \A d \in l.dates : \A i \in At("rmtree", d) :
                  /\ l.calls[i][3] = "ok" => d \notin localDirs'
                  /\ l.calls[i][3] = "ignored" => d \in localDirs' /\ localFiles'[d] = localFiles[d]
             /\ NoErrCall(l) => l.raised = "none" /\ l.done = l.dates
             /\ remote' \subseteq remote ]_vars

\* A deletion removed a file and its folder from the store and then failed
\* to remove the local directory.
C11_Witness ==
    /\ last.op = "delete"
    /\ last.raised = "none"
    /\ \E i, j, k \in DOMAIN last.calls :
         /\ i < j /\ j < k
         /\ last.calls[i][1] = "delete" /\ last.calls[i][3] = "ok"
         /\ last.calls[j][1] = "delete" /\ last.calls[j][3] = "ok"
         /\ last.calls[k][1] = "rmtree" /\ last.calls[k][3] = "ignored"
         /\ last.calls[k][2] \in localDirs

\* ------------------------------------------------------- ingestion: claims
\* C12: commits that overlap in time or fall into the same second never
\* choose the same file name for the same date, and the file a commit wrote
\* stays in the directory with the rows that commit wrote.
C12_NoNameCollision ==
    /\ \A w1 \in Writers, w2 \in Writers :
          w1 # w2 => writers[w1].names \cap writers[w2].names = {}
    /\ \A w \in Writers : \A d \in writers[w].touched :
          \E f \in localFiles[d] :
              /\ <<d, f.name>> \in writers[w].names
              /\ f.content = Group(writers[w].df, d)

\* C13: write_partitioned_parquet adds exactly one file, holding the rows of
\* the date, to the directory of each date of its frame, changes no file
\* that was there, and returns the dates of the rows of its frame.
C13_OneNewFilePerDate ==
    [][ \A w \in Writers :
          /\ (writers[w].pc = "write" /\ writers'[w].pc # "write") =>
                LET ds == Head(writers[w].groups)
                IN /\ \E f \in localFiles'[ds] :
                        /\ f.name \notin {x.name : x \in localFiles[ds]}
                        /\ f.content = Group(writers[w].df, ds)
                        /\ localFiles'[ds] = localFiles[ds] \cup {f}
                   /\ \A d \in Dates \ {ds} : localFiles'[d] = localFiles[d]
          /\ (writers[w].pc # "done" /\ writers'[w].pc = "done") =>
                /\ writers'[w].result = GroupKeys(writers[w].df)
                /\ writers[w].df = <<>> => writers'[w].result = {} ]_vars

\* C14: a call of upload_new_local_files that meets no error creates one
\* remote object for every file of every affected local directory, whatever
\* the folder holds, so that after a second call for an unchanged partition
\* uploaded into a new folder the folder holds two objects per local file.
Copies(rem, d, f) ==
    Cardinality({o \in FilesBelow(rem, d) : o.name = f.name /\ o.content = f.content})

C14_NoDeduplication ==
    [][ (last'.op = "upload" /\ NoErrCall(last')) =>
          /\ \A d \in last'.dates : \A f \in localFiles[d] :
                Copies(remote', d, f) = Copies(remote, d, f) + 1
          /\ Cardinality({o \in remote' \ remote : ~o.folder})
                = Cardinality(UNION {{<<d, f>> : f \in localFiles[d]} : d \in last'.dates})
          /\ last'.again =>
                \A d \in last'.dates : \A f \in localFiles[d] : Copies(remote', d, f) = 2 ]_vars

\* The second upload of an unchanged partition.
C14_Witness ==
    /\ last.op = "upload"
    /\ last.again
    /\ NoErrCall(last)
    /\ \E d \in last.dates : \E f \in localFiles[d] : Copies(remote, d, f) = 2

\* The rows written to the partitions, the rows the loop has collected, and
\* the input row an output row came from.
Committed == UNION {UNION {{r[2] : r \in f.content} : f \in localFiles[d]} : d \in Dates}
Collected == {Concat(imp.dfs)[j] : j \in DOMAIN Concat(imp.dfs)}
RawOf(row) == imp.batch[row.file].rows[row.idx]

\* C15: every row that parse_and_filter_df returned and the import flow wrote
\* to a partition has a dial speed that is defined, not negative and the
\* distance between its call start and its insert time, and comes from an
\* input row both of whose timestamps could be parsed.
C15_CommittedDialSpeed ==
    \A row \in Committed :
        /\ RawOf(row).CallStartdate[1] = "ts"
        /\ RawOf(row).Insert_Dt[1] = "ts"
        /\ row.DialSpeed # NaN
        /\ row.DialSpeed >= 0
        /\ \/ row.DialSpeed = RawOf(row).CallStartdate[2] - RawOf(row).Insert_Dt[2]
           \/ row.DialSpeed = RawOf(row).Insert_Dt[2] - RawOf(row).CallStartdate[2]

\* C16: of a file with all required columns, every returned row has attempt
\* 1, the status "Connected" and a key that is not empty, no row whose
\* attempt is not a number is returned, and every input row with attempt 1,
\* status Connected and a key that is neither missing nor blank is returned.
C16_FilterExact ==
    \A i \in 1..(imp.i - 1) :
        Columns \subseteq imp.batch[i].cols =>
            LET rows == imp.batch[i].rows
                out == {r \in Collected : r.file = i}
            IN /\ \A r \in out :
                    /\ r.idx \in DOMAIN rows
                    /\ r.attempt = 1
                    /\ r.CallStatus = <<"str", "Connected">>
                    /\ r.Level1 # <<"str", "">>
                    /\ r.Level1[2] = rows[r.idx].Level1[2]
                    /\ rows[r.idx].attempt[1] \notin {"text", "na"}
               /\ \A k \in DOMAIN rows :
                    (/\ rows[k].attempt \in {<<"num", 10>>, <<"numstr", 10>>}
                     /\ rows[k].CallStatus[1] # "na" /\ rows[k].CallStatus[2] = "Connected"
                     /\ rows[k].Level1[1] # "na" /\ rows[k].Level1[2] # "")
                    => Cardinality({r \in out : r.idx = k}) = 1

\* A row with the attempt "1" as a string and blanks around its status and
\* its key went through the filter.
C16_Witness ==
    /\ imp.i > 1
    /\ \E r \in Collected :
         /\ RawOf(r).attempt = <<"numstr", 10>>
         /\ RawOf(r).CallStatus = <<"padded", "Connected">>
         /\ RawOf(r).Level1 = <<"padded", "k">>
         /\ r.Level1 = <<"str", "k">>

\* C17: a file of a batch without some required column gets one warning that
\* names exactly the missing columns, brings no row into the frames or the
\* partitions, and every other file is parsed: its kept rows are collected
\* and, at the end, those with an insert date are in the partitions.
C17_SchemaErrorPerFile ==
    /\ \A i \in 1..(imp.i - 1) :
          LET f == imp.batch[i]
              w == {j \in DOMAIN imp.warnings : imp.warnings[j][1] = i}
          IN IF f.cols # Columns
             THEN /\ Cardinality(w) = 1
                  /\ \A j \in w :
                        /\ {imp.warnings[j][2][k] : k \in DOMAIN imp.warnings[j][2]} = Columns \ f.cols
                        /\ Len(imp.warnings[j][2]) = Cardinality(Columns \ f.cols)
                  /\ \A r \in Collected \cup Committed : r.file # i
             ELSE /\ w = {}
                  /\ \A k \in DOMAIN f.rows :
                        (f.rows[k].attempt = <<"num", 10>> /\ f.rows[k].CallStatus = <<"str", "Connected">>
                            /\ f.rows[k].Level1 = <<"str", "k">>)
                        => \E r \in Collected : r.file = i /\ r.idx = k
    /\ imp.pc = "end" =>
          /\ imp.i = Len(imp.batch) + 1
          /\ \A r \in Collected : r.Insert_Dt # NaT =>
                /\ r \in Committed
                /\ DateOf(r.Insert_Dt) \in imp.touched
          /\ Committed \subseteq Collected

\* The first file of a batch lacked two columns and the row of the second
\* was committed.
C17_Witness ==
    /\ imp.pc = "end"
    /\ Cardinality(Columns \ imp.batch[1].cols) = 2
    /\ \E r \in Committed : r.file = 2
    /\ Len(imp.warnings) = 1

\* --------------------------------------------------- query engine: claims
\* The rows of the store that the query that ran had to read.
Contributing == Scanned(qstore, qlast.d1, qlast.d2, qlast.camps)

\* The calls that the methods answer without a result of the query: no
\* campaign selected, no grouping column for get_summary, a failing query.
Degraded ==
    \/ qlast.camps = {}
    \/ qlast.shape = "summary" /\ qlast.group_by = <<>>
    \/ qlast.fault

\* C18: no query method lets an error out; without campaigns, without
\* grouping columns for get_summary, and when the query fails, the grouped and
\* the weekly query return no rows and get_overall_stats returns the record
\* with Call Count 0, Avg Dial Speed 0 and 0 for every requested percentile.
C18_QueriesNeverRaise ==
    qlast.shape # "none" =>
        /\ qlast.raised = "none"
        /\ Degraded /\ qlast.shape \in {"summary", "weekly"} => qlast.rows = {}
        /\ Degraded /\ qlast.shape = "overall" =>
              /\ Cardinality(qlast.rows) = 1
              /\ \A row \in qlast.rows :
                    /\ row.count = 0
                    /\ row.avg = 0
                    /\ DOMAIN row.ps = DOMAIN qlast.pvals
                    /\ \A i \in DOMAIN row.ps : row.ps[i] = 0

\* A failing query over rows that match the selection, for the overall
\* stats with three percentiles.
C18_Witness ==
    /\ qlast.shape = "overall"
    /\ qlast.fault
    /\ Contributing # {}
    /\ Len(qlast.pvals) = 3
    /\ qlast.raised = "none"
    /\ qlast.rows = {default_stats(qlast.pvals)}

\* The rows of the store that fall into group g of the query that ran.
InGroup(g) == {r \in Contributing : GroupOf(r, qlast.group_by) = g}

\* The Level1 keys recorded in group g.
PairsOf(g) == {r.Level1 : r \in InGroup(g)}

\* C19: in each query shape only the rows whose date lies in [d1, d2] and
\* whose campaign is selected count; every (G, Level1) pair among them gives one
\* observation, the least dial speed recorded for the pair; the result has one
\* row for each G among them, and its Call Count is the number of (G, Level1)
\* pairs with that G.
C19_OneObservationPerPair ==
    qlast.shape # "none" /\ ~Degraded /\ qstore # {} =>
        /\ qlast.shape # "overall" =>
              /\ {row.G : row \in qlast.rows} = {GroupOf(r, qlast.group_by) : r \in Contributing}
              /\ \A r1 \in qlast.rows, r2 \in qlast.rows : r1.G = r2.G => r1 = r2
        /\ \A row \in qlast.rows :
              /\ DOMAIN row.obs = PairsOf(row.G)
              /\ \A k \in PairsOf(row.G) :
                    /\ \E r \in InGroup(row.G) : r.Level1 = k /\ r.speed = row.obs[k]
                    /\ \A r \in InGroup(row.G) :
                          r.Level1 = k /\ r.speed # NaN => row.obs[k] # NaN /\ row.obs[k] <= r.speed
              /\ row.count = Cardinality(PairsOf(row.G))

\* The overall stats with P50 were asked for campaign "A" and the dates 1 to
\* 3 of a store that holds the six rows of the scenario.
ScenarioAsked ==
    /\ qlast.shape = "overall"
    /\ ~qlast.fault
    /\ qlast.d1 = 1 /\ qlast.d2 = 3
    /\ qlast.camps = {"A"}
    /\ qlast.pvals = <<50>>
    /\ \E f \in KeyChoices : qstore = ScenarioStore(f)

\* C20 as stated: for the rows with the speeds 10, 20, 30 on the first date,
\* 5 on the second and 40, 50 on the third, all of campaign "A", the overall
\* stats over the three dates are Call Count 5, Avg Dial Speed 31 and P50 20.
C20_ScenarioStats ==
    ScenarioAsked =>
        \A row \in qlast.rows : row.count = 5 /\ row.avg = 31 /\ row.ps = <<20>>

\* C20 amended: when the six rows have six different Level1 keys the overall
\* stats are Call Count 6, Avg Dial Speed 26 (155 / 6 rounded) and P50 25
\* (half way between 20 and 30); and whatever keys the six rows have, the
\* stats are never Call Count 5 with Avg Dial Speed 31 and P50 20.
C20_ScenarioSixCalls ==
    ScenarioAsked =>
        /\ Cardinality(qlast.rows) = 1
        /\ \A row \in qlast.rows :
              /\ Cardinality({r.Level1 : r \in qstore}) = 6 =>
                    row.count = 6 /\ row.avg = 26 /\ row.ps = <<25>>
              /\ ~(row.count = 5 /\ row.avg = 31 /\ row.ps = <<20>>)

C20_Witness ==
    /\ ScenarioAsked
    /\ Cardinality({r.Level1 : r \in qstore}) = 6
    /\ \E row \in qlast.rows : row.count = 6 /\ row.avg = 26

\* C21: in every row of a result the percentiles are ordered as their
\* ranks: for requested percentiles p >= q of the same observations, the
\* reported value for p is at least the reported value for q.
C21_PercentilesMonotone ==
    \A row \in qlast.rows :
        \A i \in DOMAIN row.ps, j \in DOMAIN row.ps :
            qlast.pvals[i] >= qlast.pvals[j] => row.ps[i] >= row.ps[j]

\* A row over several different observations whose P95, P90 and P85 are
\* all different.
C21_Witness ==
    /\ qlast.pvals = <<95, 90, 85>>
    /\ ~Degraded
    /\ \E row \in qlast.rows :
          /\ row.count >= 3
          /\ row.ps[1] > row.ps[2]
          /\ row.ps[2] > row.ps[3]

\* ---------------------------------------------------- compute_all: claims
\* Frame q runs upwards in key K.
Upwards(q, by) ==
    \A i \in DOMAIN q, j \in DOMAIN q : i < j => KeyOf(by, q[i]) <= KeyOf(by, q[j])

\* The date and the hour of a row of the cross-tabulation.
CrossDate(row) == row.G[1]
CrossHour(row) == row.G[2]

\* The weekly rollup runs down in weeks and up in campaigns within a week;
\* the cross-tabulation runs down in dates and up in hours within a date.
WeeklyAndCrossSorted ==
    /\ \A i \in DOMAIN shown.frames.weekly_summary, j \in DOMAIN shown.frames.weekly_summary :
          i < j =>
            LET a == shown.frames.weekly_summary[i]
                b == shown.frames.weekly_summary[j]
            IN a.G[1] > b.G[1] \/ (a.G[1] = b.G[1] /\ CampRank(a.G[2]) <= CampRank(b.G[2]))
    /\ \A i \in DOMAIN shown.frames.dashboard, j \in DOMAIN shown.frames.dashboard :
          i < j =>
            LET a == shown.frames.dashboard[i]
                b == shown.frames.dashboard[j]
            IN CrossDate(a) > CrossDate(b)
               \/ (CrossDate(a) = CrossDate(b) /\ CrossHour(a) <= CrossHour(b))

\* C22: the frames by campaign, by date and by hour interval reach the tabs
\* in ascending order of their grouping column; the weekly rollup by week
\* descending then campaign ascending; the date x hour x campaign
\* cross-tabulation by date descending then hour ascending.
C22_TablesSorted ==
    shown.asked =>
        /\ Upwards(shown.frames.summary_by_camp, "CAMPAIGN")
        /\ Upwards(shown.frames.summary_by_date, "Date")
        /\ Upwards(shown.frames.by_interval, "Interval")
        /\ WeeklyAndCrossSorted

\* ------------------------------------------------ sync manager: more claims
\* No folder named Date=<d> lies under the dataset root.
NoRemoteFolder(rem, d) == ~\E o \in rem : o.folder /\ o.parent = Root /\ o.name = PartName(d)

\* C23: when ensure_local_partitions_for_dates is called for a date without
\* local data and without a remote folder Date=<d>, the date is skipped: the
\* call makes no directory and no file for it, an error leaves the call only
\* when a listing of the store failed, and when every requested date is such
\* a date the call does nothing beyond listing the root.
C23_AbsentDateSkipped ==
    [][last'.op = "ensure" =>
        \A d \in last'.dates :
            ~IsPresent(localDirs, localFiles, d) /\ NoRemoteFolder(remote, d) =>
                /\ (d \in localDirs') = (d \in localDirs)
                /\ localFiles'[d] = {}
                /\ d \in last'.done \/ last'.raised # "none"
                /\ last'.raised # "none" =>
                      \E i \in DOMAIN last'.calls :
                          last'.calls[i][1] = "list" /\ last'.calls[i][3] = "err"
                /\ (\A x \in last'.dates :
                        ~IsPresent(localDirs, localFiles, x) /\ NoRemoteFolder(remote, x)) =>
                      \A i \in DOMAIN last'.calls : last'.calls[i][1] = "list" /\ last'.calls[i][2] = Root
    ]_vars

\* One call skipped a date that is absent on both sides and downloaded a
\* file of another date.
C23_Witness ==
    /\ last.op = "ensure"
    /\ last.raised = "none"
    /\ \E d \in last.dates : d \notin localDirs /\ NoRemoteFolder(remote, d) /\ d \in last.done
    /\ \E i \in DOMAIN last.calls : last.calls[i][1] = "download" /\ last.calls[i][3] = "ok"

\* ------------------------------------------------- list_children: claims
\* C24: list_children returns every child of the folder that is not trashed
\* (of the MIME type, when one is given), each once, whatever pages the store
\* serves, and over finitely many pages it comes to an end.
C24_AllPagesListed ==
    /\ [](lc.pc = "done" =>
            /\ Range(lc.files) = Matching(lc.objs, lc.parent_id, lc.folders_only)
            /\ \A i \in DOMAIN lc.files, j \in DOMAIN lc.files : lc.files[i] = lc.files[j] => i = j
            /\ lc.page_token = NoToken)
    /\ [](lc.pc = "called" => <>(lc.pc \in {"done", "raised"}))

\* A listing of three folders served one to a page has returned.
C24_Witness ==
    /\ lc.pc = "done"
    /\ lc.folders_only
    /\ Len(lc.pages) = 3
    /\ \A k \in DOMAIN lc.pages : Len(lc.pages[k]) = 1
    /\ Len(lc.files) = 3

\* ---------------------------------------------------- import flow: messages
\* A remote call of the handler that ran last raised.
RemoteCallRaised == \E i \in DOMAIN last.calls : last.calls[i][3] = "err"

\* C25: after "Process & Import Files", when the upload of every touched
\* date succeeded the flow shows the success message and no failure message;
\* when the upload raised it shows the failure message; in both cases the
\* partition files the commit wrote are in the local cache.
C25_ImportMessages ==
    last.op = "import" =>
        /\ ~RemoteCallRaised => last.msgs = <<"success">>
        /\ RemoteCallRaised => last.msgs = <<"error">>
        /\ \A d \in last.dates :
              d \in localDirs /\ \E f \in localFiles[d] : f.content = commits

\* The objects below the remote folders named Date=<d>.
RemoteFilesOf(d) ==
    {o \in remote : ~o.folder /\ \E p \in remote : /\ p.folder /\ p.parent = Root
                                                    /\ p.name = PartName(d) /\ o.parent = p.id}

\* C26: after an import in a run without any fault, the remote folder of
\* each date the import touched holds one object for each file of the local
\* partition of the date and no two objects of one name.
C26_NoDuplicatesAfterImport ==
    last.op = "import" /\ faults = 0 =>
        \A d \in last.dates :
            /\ {o.name : o \in RemoteFilesOf(d)} = {f.name : f \in localFiles[d]}
            /\ \A o1 \in RemoteFilesOf(d), o2 \in RemoteFilesOf(d) : o1.name = o2.name => o1.id = o2.id

\* C27: a call of ensure_local_partitions_for_dates leaves alone every
\* requested date whose local directory holds any entry, be it some of the
\* remote files only or a leftover .part file only: it lists no folder and
\* downloads no file of that date, and the directory is as before.
C27_NoSecondFetch ==
    [][last'.op = "ensure" =>
        \A d \in last'.dates :
            d \in localDirs /\ localFiles[d] # {} =>
                /\ localFiles'[d] = localFiles[d]
                /\ \A i \in DOMAIN last'.calls :
                      /\ last'.calls[i][1] = "download" => last'.calls[i][2] \notin PartFiles(remote, {d})
                      /\ last'.calls[i][1] = "list" => last'.calls[i][2] \notin PartFolders(remote, {d})
    ]_vars

\* ensure_local_partitions_for_dates returned for a date whose directory
\* holds nothing but a .part file while the remote folder holds its file.
C27_Witness ==
    /\ last.op = "ensure"
    /\ last.raised = "none"
    /\ \E d \in last.dates :
          /\ d \in last.done
          /\ localFiles[d] # {}
          /\ \A f \in localFiles[d] : f.name[1] = "part"
          /\ PartFiles(remote, {d}) # {}

\* C28: after delete_dates_remote_and_local returned normally, no folder
\* named Date=<d> is left under the dataset root and no local directory of d
\* is left, for every date d of the call, also when the root held several
\* folders of that name.
C28_DeleteLeavesNothing ==
    last.op = "delete" /\ last.raised = "none" =>
        \A d \in last.dates : NoRemoteFolder(remote, d) /\ d \notin localDirs

\* ------------------------------------------ ensure_partition_folder: claims
\* C29: the root never holds two folders of one name Date=<d>, and two
\* imports of one date that both finished uploaded into the same folder.
C29_OneFolderPerDate ==
    /\ \A o1 \in ep.rem, o2 \in ep.rem :
          o1.folder /\ o2.folder /\ o1.parent = Root /\ o2.parent = Root /\ o1.name = o2.name
              => o1.id = o2.id
    /\ \A p1 \in Importers, p2 \in Importers :
          /\ ep.procs[p1].pc = "done"
          /\ ep.procs[p2].pc = "done"
          /\ ep.procs[p1].ds = ep.procs[p2].ds
          => ep.procs[p1].dest_id = ep.procs[p2].dest_id

\* ------------------------------------------------ get_overall_stats: claims
\* C30: get_overall_stats returns a number for Call Count, Avg Dial Speed and
\* each requested percentile whatever it is asked; when the cache holds files
\* but no row matches the dates and the campaigns, all of them are 0, as when
\* no campaign is selected.
C30_OverallStatsAlwaysNumbers ==
    qlast.shape = "overall" =>
        \A row \in qlast.rows :
            /\ row.count # NaN /\ row.avg # NaN
            /\ DOMAIN row.ps = DOMAIN qlast.pvals
            /\ \A i \in DOMAIN row.ps : row.ps[i] # NaN
            /\ qstore # {} /\ Contributing = {} =>
                  row.count = 0 /\ row.avg = 0 /\ \A i \in DOMAIN row.ps : row.ps[i] = 0

\* ---------------------------------------------------------- sessions: claims
\* C31: a script run performs a sync, a query, a commit, an upload or a
\* deletion only in a session that logged in with an email and a password
\* matching a configured user and has not logged out since; it performs a
\* commit, an upload or a deletion only when the role of that user is admin;
\* a failed login leaves the session without auth_user, and so does a logout.
C31_GatedByLoginAndRole ==
    LET run == sess.lastrun
    IN /\ run.ops # {} => sess.proved[run.s] /\ run.user # NoUser
       /\ run.ops \cap {"commit", "upload", "delete"} # {} => run.user.role[2] = "admin"
       /\ run.kind \in {"login failed", "login form", "not configured", "logout"} =>
             sess.auth_user[run.s] = NoUser /\ ~sess.proved[run.s]
       /\ \A s \in Sessions : sess.auth_user[s] # NoUser => sess.proved[s]

\* An admin session deleted while the other session is not logged in.
C31_Witness ==
    /\ "delete" \in sess.lastrun.ops
    /\ sess.lastrun.admin
    /\ \E s \in Sessions : s # sess.lastrun.s /\ sess.auth_user[s] = NoUser

====
